---------------------------- MODULE Spec2Model ----------------------------
(***************************************************************************)
(* AlpacaPay: the token scoring service (backend/services/tokenScorer.js), *)
(* the price service with its caches (backend/services/priceService), the  *)
(* paymaster service (backend/services/paymasterService.js) and the hooks, *)
(* pages and components of the frontend.                                   *)
(*                                                                         *)
(* Numbers are fixed-point integers:                                       *)
(*   balance      whole tokens (the value parseFloat returns)              *)
(*   price        US cents per token                                       *)
(*   usdBalance   US cents                                                 *)
(*   volatility   hundredths of a percent   (100% = 10000)                 *)
(*   slippage     thousandths of a percent  (10%  = 10000)                 *)
(*   sub-scores   1/Scale                   (1.0  = Scale)                 *)
(*   score        1/(10*Scale), the weights being tenths (1.0 = 10*Scale)  *)
(*   time         units of 5 minutes (Date.now() / 300000)                 *)
(***************************************************************************)
EXTENDS Integers, Sequences, FiniteSets, TLC

\* one call of the scorer: its arguments, its result and its position
VARIABLES op, tokens, priceData, slippageData, usdArg, result, pc

\* the price service: its two Maps, the clock, the getPriceData calls in
\* flight, the number of calls started, and for every cache entry the value
\* and the time of the last write (history)
VARIABLES priceCache, volatilityCache, now, calls, requests, lastWrite

\* the paymaster service: its cached list of supported tokens and the time
\* of the cache, the clock, the call in progress and the number of calls
\* started
VARIABLES supportedTokens, supportedTokensTimestamp, pmNow, pmCall, pmCalls

\* the frontend. userOp is the state of one useUserOp instance and userOpCall
\* its call in progress; page is the state of PaymentPage and modal that of
\* its TransactionModal; tokenState is the state of one useTokens instance
\* and tokenCalls its calls in flight; wallet is the state of every
\* useWallet instance and home that of HomePage; frontSteps counts the
\* operations started
VARIABLES userOp, userOpCall, page, modal, tokenState, tokenCalls, wallet,
          home, frontSteps

scorerVars == <<op, tokens, priceData, slippageData, usdArg, result, pc>>
serviceVars == <<priceCache, volatilityCache, now, calls, requests, lastWrite>>
paymasterVars ==
  <<supportedTokens, supportedTokensTimestamp, pmNow, pmCall, pmCalls>>
frontVars == <<userOp, userOpCall, page, modal, tokenState, tokenCalls,
               wallet, home, frontSteps>>
backendVars ==
  <<op, tokens, priceData, slippageData, usdArg, result, pc,
    priceCache, volatilityCache, now, calls, requests, lastWrite,
    supportedTokens, supportedTokensTimestamp, pmNow, pmCall, pmCalls>>
vars == <<op, tokens, priceData, slippageData, usdArg, result, pc,
          priceCache, volatilityCache, now, calls, requests, lastWrite,
          supportedTokens, supportedTokensTimestamp, pmNow, pmCall, pmCalls,
          userOp, userOpCall, page, modal, tokenState, tokenCalls, wallet,
          home, frontSteps>>

-----------------------------------------------------------------------------
(* Bounds of the model *)

\* longest token list handed to scoreTokens
MaxTokens == 2
\* largest USD balance (in cents) handed to _normalizeBalance on its own
MaxUsdCents == 16000
\* getPriceData calls started in one behaviour
MaxRequests == 2
\* the last instant of the clock
MaxTime == 3
\* calls of the paymaster service started in one behaviour
MaxPaymasterCalls == 3
\* the last instant of the clock of the paymaster service
MaxPaymasterTime == 4
\* calls of useUserOp started in one behaviour
MaxUserOpCalls == 3
\* calls of onConfirm in one opening of the modal
MaxConfirms == 2
\* calls of useTokens started in one behaviour
MaxTokenCalls == 3

-----------------------------------------------------------------------------
(* Program constants *)

\* weights, in tenths
WeightBalance == 4
WeightVolatility == 3
WeightSlippage == 3
\* minBalance, in USD
MinBalance == 5
\* divisor of the log scale
LogDivisor == 5
\* fallback volatility (percent) and slippage (percent)
DefaultVolatility == 100
DefaultSlippage == 10
\* cacheTTL = 5 * 60 * 1000 ms, in clock units of 5 minutes
CacheTTL == 1
\* cacheTTL of the paymaster service = 10 * 60 * 1000 ms, in clock units of
\* 10 minutes
PaymasterCacheTTL == 1
\* reason thresholds: USD, percent, percent, percent, tenths of a percent, percent
HighBalance == 100
ModerateBalance == 20
VeryStableBelow == 1
StableBelow == 5
HighVolatilityAbove == 20
MinimalSlippageBelowTenths == 5
HighSlippageAbove == 3

-----------------------------------------------------------------------------
(* Units *)

Scale == 100 * 100
CentsPerUsd == 10 * 10
VolUnitsPerPercent == 10 * 10
SlipUnitsPerPercent == 10 * 10 * 10

\* the JavaScript undefined, for a number that may be missing
Undefined == 0 - 1

Min(a, b) == IF a <= b THEN a ELSE b


-----------------------------------------------------------------------------
(* JavaScript primitives used by the scorer *)

\* String.prototype.toLowerCase on the addresses of the model
ToLowerCase(a) ==
  CASE a = "0xAA" -> "0xaa"
    [] a = "0xBb" -> "0xbb"
    [] OTHER -> a

\* parseFloat on the balance strings of the model: a number, or NaN
ParseFloat(s) ==
  CASE s = "0"    -> [nan |-> FALSE, val |-> 0]
    [] s = "3"    -> [nan |-> FALSE, val |-> 3]
    [] s = "20"   -> [nan |-> FALSE, val |-> 20]
    [] s = "50"   -> [nan |-> FALSE, val |-> 50]
    [] s = "100"  -> [nan |-> FALSE, val |-> 100]
    [] s = "1000" -> [nan |-> FALSE, val |-> 1000]
    [] s = "-2"   -> [nan |-> FALSE, val |-> -2]
    [] OTHER      -> [nan |-> TRUE, val |-> 0]

\* parseFloat(x) || 0 : NaN and 0 are falsy
FloatOrZero(f) == IF f.nan \/ f.val = 0 THEN 0 ELSE f.val

\* x || d on a number that may be undefined: undefined and 0 are falsy
OrElse(x, d) == IF x = Undefined \/ x = 0 THEN d ELSE x

\* data[address]?.field for the three fields the scorer reads
PriceOf(data, address) ==
  IF address \in DOMAIN data THEN data[address].price ELSE Undefined

VolatilityOf(data, address) ==
  IF address \in DOMAIN data THEN data[address].volatility24h ELSE Undefined

SlippageOf(data, address) ==
  IF address \in DOMAIN data THEN data[address].slippage ELSE Undefined

RECURSIVE Pow2(_)
Pow2(k) == IF k = 0 THEN 1 ELSE 2 * Pow2(k - 1)

RECURSIVE Log2Floor(_)
Log2Floor(n) == IF n < 2 THEN 0 ELSE 1 + Log2Floor(n \div 2)

\* Scale * atanh(z / Scale) by its series, for 0 <= z <= Scale / 3
AtanhScaled(z) ==
  LET z2 == (z * z) \div Scale
      z3 == (z * z2) \div Scale
      z5 == (z3 * z2) \div Scale
      z7 == (z5 * z2) \div Scale
      z9 == (z7 * z2) \div Scale
  IN  z + (z3 \div 3) + (z5 \div 5) + (z7 \div 7) + (z9 \div 9)

\* Scale * ln(n) for an integer n >= 1: n = m * 2^k with 1 <= m < 2 and
\* ln(m) = 2 * atanh((m - 1) / (m + 1))
LnScaled(n) ==
  LET k     == Log2Floor(n)
      shift == IF k > 16 THEN Pow2(k - 16) ELSE 1
      num   == (n - Pow2(k)) \div shift
      den   == (n + Pow2(k)) \div shift
  IN  (k * 693147) \div 100 + 2 * AtanhScaled((num * Scale) \div den)

\* Math.log of an amount given in cents, in 1/Scale
MathLog(cents) == LnScaled(cents) - LnScaled(CentsPerUsd)

\* Number.prototype.toFixed(2) of a value given in 1/unitsPerOne
RECURSIVE Digits(_)
Digits(n) == IF n < 10 THEN ToString(n) ELSE Digits(n \div 10) \o ToString(n % 10)

ToFixed2(v, unitsPerOne) ==
  LET h == (v * 100 + unitsPerOne \div 2) \div unitsPerOne
  IN  Digits(h \div 100) \o "." \o ToString((h % 100) \div 10) \o ToString(h % 10)

-----------------------------------------------------------------------------
(* TokenScorer *)

\* _normalizeBalance without Math.min: the log score is returned as it is
NormalizeBalanceUncapped(usdBalance) ==
  IF usdBalance < MinBalance * CentsPerUsd
    THEN (3 * Scale * usdBalance) \div (10 * MinBalance * CentsPerUsd)
    ELSE MathLog(usdBalance) \div LogDivisor

\* _normalizeBalance with the factor 0.3 of the linear branch left out
NormalizeBalanceUnscaledLinear(usdBalance) ==
  IF usdBalance < MinBalance * CentsPerUsd
    THEN (Scale * usdBalance) \div (MinBalance * CentsPerUsd)
    ELSE Min(Scale, MathLog(usdBalance) \div LogDivisor)

\* _normalizeBalance(usdBalance): usdBalance in cents, the result in 1/Scale
NormalizeBalance(usdBalance) ==
  IF usdBalance < MinBalance * CentsPerUsd
    THEN (3 * Scale * usdBalance) \div (10 * MinBalance * CentsPerUsd)
    ELSE Min(Scale, MathLog(usdBalance) \div LogDivisor)

\* _generateReasons with the balance thresholds made strict (> 100, > 20)
GenerateReasonsStrictBalance(usdBalance, volatility, slippage) ==
  LET usd  == ToFixed2(usdBalance, CentsPerUsd)
      vol  == ToFixed2(volatility, VolUnitsPerPercent)
      slip == ToFixed2(slippage, SlipUnitsPerPercent)
      balanceReasons ==
        IF usdBalance > HighBalance * CentsPerUsd
          THEN << "High balance ($" \o usd \o ") provides flexibility" >>
        ELSE IF usdBalance > ModerateBalance * CentsPerUsd
          THEN << "Moderate balance ($" \o usd \o ") is sufficient" >>
        ELSE << "Low balance ($" \o usd \o ") may limit options" >>
      volatilityReasons ==
        IF volatility < VeryStableBelow * VolUnitsPerPercent
          THEN << "Very stable price (" \o vol \o "% 24h change)" >>
        ELSE IF volatility < StableBelow * VolUnitsPerPercent
          THEN << "Stable price (" \o vol \o "% 24h change)" >>
        ELSE IF volatility > HighVolatilityAbove * VolUnitsPerPercent
          THEN << "High price volatility (" \o vol \o "% 24h change)" >>
        ELSE << >>
      slippageReasons ==
        IF 10 * slippage < MinimalSlippageBelowTenths * SlipUnitsPerPercent
          THEN << "Minimal slippage (" \o slip \o "%)" >>
        ELSE IF slippage > HighSlippageAbove * SlipUnitsPerPercent
          THEN << "High slippage (" \o slip \o "%)" >>
        ELSE << >>
  IN  balanceReasons \o volatilityReasons \o slippageReasons

\* _generateReasons(usdBalance, volatility, slippage)
GenerateReasons(usdBalance, volatility, slippage) ==
  LET usd  == ToFixed2(usdBalance, CentsPerUsd)
      vol  == ToFixed2(volatility, VolUnitsPerPercent)
      slip == ToFixed2(slippage, SlipUnitsPerPercent)
      balanceReasons ==
        IF usdBalance >= HighBalance * CentsPerUsd
          THEN << "High balance ($" \o usd \o ") provides flexibility" >>
        ELSE IF usdBalance >= ModerateBalance * CentsPerUsd
          THEN << "Moderate balance ($" \o usd \o ") is sufficient" >>
        ELSE << "Low balance ($" \o usd \o ") may limit options" >>
      volatilityReasons ==
        IF volatility < VeryStableBelow * VolUnitsPerPercent
          THEN << "Very stable price (" \o vol \o "% 24h change)" >>
        ELSE IF volatility < StableBelow * VolUnitsPerPercent
          THEN << "Stable price (" \o vol \o "% 24h change)" >>
        ELSE IF volatility > HighVolatilityAbove * VolUnitsPerPercent
          THEN << "High price volatility (" \o vol \o "% 24h change)" >>
        ELSE << >>
      slippageReasons ==
        IF 10 * slippage < MinimalSlippageBelowTenths * SlipUnitsPerPercent
          THEN << "Minimal slippage (" \o slip \o "%)" >>
        ELSE IF slippage > HighSlippageAbove * SlipUnitsPerPercent
          THEN << "High slippage (" \o slip \o "%)" >>
        ELSE << >>
  IN  balanceReasons \o volatilityReasons \o slippageReasons

\* parseFloat(token.balance) || 0
Balance(token) == FloatOrZero(ParseFloat(token.balance))

\* priceData[address]?.price || 0
Price(pData, address) == OrElse(PriceOf(pData, address), 0)

\* priceData[address]?.volatility24h || 100
Volatility(pData, address) ==
  OrElse(VolatilityOf(pData, address), DefaultVolatility * VolUnitsPerPercent)

\* the volatility score floored at 0
VolatilityScoreClamped(volatility) ==
  LET raw == Scale - (volatility * Scale) \div (100 * VolUnitsPerPercent)
  IN  IF raw < 0 THEN 0 ELSE raw

\* 1 - (volatility / 100)
VolatilityScore(volatility) ==
  Scale - (volatility * Scale) \div (100 * VolUnitsPerPercent)

\* a missing slippage taken as no slippage at all
SlippageDefaultingToNone(sData, address) ==
  OrElse(SlippageOf(sData, address), 0)

\* slippageData[address]?.slippage || 10
Slippage(sData, address) ==
  OrElse(SlippageOf(sData, address), DefaultSlippage * SlipUnitsPerPercent)

\* 1 - (slippage / 10)
SlippageScore(slippage) ==
  Scale - (slippage * Scale) \div (10 * SlipUnitsPerPercent)

\* the early returns with the balance test made strict (usdBalance < 0)
EdgeCaseStrictBalance(usdBalance, price) ==
  IF usdBalance < 0 THEN "Zero balance"
  ELSE IF price <= 0 THEN "No price data available"
  ELSE ""

\* the two early returns of the callback: the reason of the one taken, or ""
EdgeCase(usdBalance, price) ==
  IF usdBalance <= 0 THEN "Zero balance"
  ELSE IF price <= 0 THEN "No price data available"
  ELSE ""

\* a score made of the balance term alone
WeightedScoreOfBalanceAlone(usdBalance, volatilityScore, slippageScore) ==
  WeightBalance * NormalizeBalance(usdBalance)

\* the weighted score, in 1/(10*Scale)
WeightedScore(usdBalance, volatilityScore, slippageScore) ==
  WeightBalance * NormalizeBalance(usdBalance)
    + WeightVolatility * volatilityScore
    + WeightSlippage * slippageScore

\* the callback of tokens.map: one token scored
ScoreToken(token, pData, sData) ==
  LET address         == ToLowerCase(token.address)
      balance         == Balance(token)
      price           == Price(pData, address)
      usdBalance      == balance * price
      volatility      == Volatility(pData, address)
      volatilityScore == VolatilityScore(volatility)
      slippage        == Slippage(sData, address)
      slippageScore   == SlippageScore(slippage)
      edge            == EdgeCase(usdBalance, price)
  IN  IF edge # ""
        THEN [address |-> token.address, balance |-> token.balance,
              score |-> 0, reasons |-> << edge >>]
        ELSE [address |-> token.address, balance |-> token.balance,
              usdBalance |-> usdBalance,
              volatilityScore |-> volatilityScore,
              slippageScore |-> slippageScore,
              score |-> WeightedScore(usdBalance, volatilityScore,
                                      slippageScore),
              reasons |-> GenerateReasons(usdBalance, volatility, slippage)]

\* tokens.map(token => ...)
MapScore(ts, pData, sData) ==
  [i \in 1..Len(ts) |-> ScoreToken(ts[i], pData, sData)]

\* the comparator with its operands swapped: ascending
CompareAscending(a, b) == a.score - b.score

\* the comparator (a, b) => b.score - a.score
Compare(a, b) == b.score - a.score

\* an unstable sort: an element goes in front of the elements it ties with
RECURSIVE InsertSortedUnstable(_, _)
InsertSortedUnstable(x, sorted) ==
  IF sorted = << >> THEN << x >>
  ELSE IF Compare(Head(sorted), x) < 0
    THEN << Head(sorted) >> \o InsertSortedUnstable(x, Tail(sorted))
    ELSE << x >> \o sorted

\* Array.prototype.sort is stable: an element goes behind every element the
\* comparator does not order after it
RECURSIVE InsertSorted(_, _)
InsertSorted(x, sorted) ==
  IF sorted = << >> THEN << x >>
  ELSE IF Compare(Head(sorted), x) <= 0
    THEN << Head(sorted) >> \o InsertSorted(x, Tail(sorted))
    ELSE << x >> \o sorted

RECURSIVE SortByScore(_)
SortByScore(s) ==
  IF s = << >> THEN << >>
  ELSE InsertSorted(s[Len(s)], SortByScore(SubSeq(s, 1, Len(s) - 1)))

\* scoreTokens returning null when no asset has a positive score
ScoreTokensNullWhenNothingScores(ts, pData, sData) ==
  IF ts.null \/ Len(ts.list) = 0
    THEN [null |-> TRUE]
    ELSE LET sortedTokens == SortByScore(MapScore(ts.list, pData, sData))
         IN  IF sortedTokens[1].score <= 0
               THEN [null |-> TRUE]
               ELSE [null |-> FALSE,
                     recommendedToken |-> sortedTokens[1],
                     allScores |-> sortedTokens]

\* scoreTokens(tokens, priceData, slippageData); ts.null says that the
\* tokens argument is missing (null or undefined), and null in the result
\* that null is returned
ScoreTokens(ts, pData, sData) ==
  IF ts.null \/ Len(ts.list) = 0
    THEN [null |-> TRUE]
    ELSE LET sortedTokens == SortByScore(MapScore(ts.list, pData, sData))
         IN  [null |-> FALSE,
              recommendedToken |-> sortedTokens[1],
              allScores |-> sortedTokens]

-----------------------------------------------------------------------------
(* PriceService: the Maps and the two fetch functions *)

\* new Map()
EmptyMap == [k \in {} |-> 0]

\* Map.prototype.get: undefined for a key that is not set
MapGet(m, k) == IF k \in DOMAIN m THEN m[k] ELSE Undefined

\* Map.prototype.set
MapSet(m, k, v) == [x \in DOMAIN m \cup {k} |-> IF x = k THEN v ELSE m[x]]

\* the keys under which the fetch times are kept
PriceTimeKey(address) == address \o "_time"
VolatilityTimeKey(address) == address \o "_vol_time"

\* a value that is neither undefined nor 0
Truthy(x) == x # Undefined /\ x # 0

DAI == "0x6b175474e89094c44da98b954eedeac495271d0f"
AAVE == "0x7fc66500c84a76ad7e9c93437bfc5ac33e2ddae9"

\* mockPrices[address], in cents
MockPrices(address) ==
  CASE address = DAI  -> 100
    [] address = AAVE -> 8520
    [] OTHER -> Undefined

\* mockVolatility[address], in hundredths of a percent
MockVolatility(address) ==
  CASE address = DAI  -> 20
    [] address = AAVE -> 930
    [] OTHER -> Undefined

\* mockSlippage[address], in thousandths of a percent
MockSlippage(address) ==
  CASE address = DAI  -> 100
    [] address = AAVE -> 1800
    [] OTHER -> Undefined

\* the set of the elements of a sequence
Range(seq) == {seq[i] : i \in 1..Len(seq)}

\* the filter of _fetchPriceData: no cache, or cache expired
NeedsPriceFetch(cache, address, t) ==
  LET cached    == MapGet(cache, address)
      cacheTime == MapGet(cache, PriceTimeKey(address))
  IN  ~Truthy(cached) \/ ~Truthy(cacheTime) \/ t - cacheTime > CacheTTL

\* a loop test under which an entry expires already at the end of its TTL
PriceIsFreshStrict(cache, address, t) ==
  LET cachedPrice == MapGet(cache, address)
      cacheTime   == MapGet(cache, PriceTimeKey(address))
  IN  Truthy(cachedPrice) /\ Truthy(cacheTime) /\ t - cacheTime < CacheTTL

\* the test of the loop of _fetchPriceData: cached and not expired
PriceIsFresh(cache, address, t) ==
  LET cachedPrice == MapGet(cache, address)
      cacheTime   == MapGet(cache, PriceTimeKey(address))
  IN  Truthy(cachedPrice) /\ Truthy(cacheTime) /\ t - cacheTime <= CacheTTL

\* a store that drops the other entries of the cache
StorePriceIntoNewMap(cache, address, price, t) ==
  MapSet(MapSet(EmptyMap, address, price), PriceTimeKey(address), t)

\* the two priceCache.set of the loop
StorePrice(cache, address, price, t) ==
  MapSet(MapSet(cache, address, price), PriceTimeKey(address), t)

\* the loop of _fetchPriceData over the addresses left, at time t; random[a]
\* is what Math.random() * 10 + 0.1 gives for address a. acc holds the
\* cache, the result built so far and the addresses given a new price
RECURSIVE PriceLoop(_, _, _, _)
PriceLoop(acc, addresses, t, random) ==
  IF addresses = << >> THEN acc
  ELSE
    LET address == Head(addresses)
        price   == OrElse(MockPrices(address), random[address])
    IN  IF PriceIsFresh(acc.cache, address, t)
          THEN PriceLoop(
                 [acc EXCEPT !.result =
                    MapSet(acc.result, address, MapGet(acc.cache, address))],
                 Tail(addresses), t, random)
          ELSE PriceLoop(
                 [cache   |-> StorePrice(acc.cache, address, price, t),
                  result  |-> MapSet(acc.result, address, price),
                  fetched |-> acc.fetched \cup {address}],
                 Tail(addresses), t, random)

\* _fetchPriceData(addresses) when it does not throw
FetchPriceData(cache, addresses, t, random) ==
  IF \A a \in Range(addresses) : ~NeedsPriceFetch(cache, a, t)
    THEN [cache   |-> cache,
          result  |-> [a \in Range(addresses) |-> OrElse(MapGet(cache, a), 0)],
          fetched |-> {}]
    ELSE PriceLoop([cache |-> cache, result |-> EmptyMap, fetched |-> {}],
                   addresses, t, random)

\* the filter of _fetchVolatilityData
NeedsVolatilityFetch(cache, address, t) ==
  LET cached    == MapGet(cache, address)
      cacheTime == MapGet(cache, VolatilityTimeKey(address))
  IN  ~Truthy(cached) \/ ~Truthy(cacheTime) \/ t - cacheTime > CacheTTL

\* a loop test that takes any cached volatility, whatever its age
VolatilityIsFreshAtAnyAge(cache, address, t) ==
  LET cachedVolatility == MapGet(cache, address)
      cacheTime        == MapGet(cache, VolatilityTimeKey(address))
  IN  /\ cachedVolatility # Undefined
      /\ Truthy(cacheTime)
      /\ t >= cacheTime

\* the test of the loop of _fetchVolatilityData
VolatilityIsFresh(cache, address, t) ==
  LET cachedVolatility == MapGet(cache, address)
      cacheTime        == MapGet(cache, VolatilityTimeKey(address))
  IN  /\ cachedVolatility # Undefined
      /\ Truthy(cacheTime)
      /\ t - cacheTime <= CacheTTL

\* a store that leaves the fetch time of an existing entry as it is
StoreVolatilityKeepingTime(cache, address, volatility, t) ==
  IF VolatilityTimeKey(address) \in DOMAIN cache
    THEN MapSet(cache, address, volatility)
    ELSE MapSet(MapSet(cache, address, volatility),
                VolatilityTimeKey(address), t)

\* the two volatilityCache.set of the loop
StoreVolatility(cache, address, volatility, t) ==
  MapSet(MapSet(cache, address, volatility), VolatilityTimeKey(address), t)

\* the loop of _fetchVolatilityData; random[a] is Math.random() * 14 + 1
RECURSIVE VolatilityLoop(_, _, _, _)
VolatilityLoop(acc, addresses, t, random) ==
  IF addresses = << >> THEN acc
  ELSE
    LET address    == Head(addresses)
        volatility == IF MockVolatility(address) # Undefined
                        THEN MockVolatility(address)
                        ELSE random[address]
    IN  IF VolatilityIsFresh(acc.cache, address, t)
          THEN VolatilityLoop(
                 [acc EXCEPT !.result =
                    MapSet(acc.result, address, MapGet(acc.cache, address))],
                 Tail(addresses), t, random)
          ELSE VolatilityLoop(
                 [cache   |-> StoreVolatility(acc.cache, address, volatility, t),
                  result  |-> MapSet(acc.result, address, volatility),
                  fetched |-> acc.fetched \cup {address}],
                 Tail(addresses), t, random)

\* _fetchVolatilityData(addresses) when it does not throw
FetchVolatilityData(cache, addresses, t, random) ==
  IF \A a \in Range(addresses) : ~NeedsVolatilityFetch(cache, a, t)
    THEN [cache   |-> cache,
          result  |-> [a \in Range(addresses) |-> OrElse(MapGet(cache, a), 0)],
          fetched |-> {}]
    ELSE VolatilityLoop([cache |-> cache, result |-> EmptyMap, fetched |-> {}],
                        addresses, t, random)

\* the result getPriceData builds when both fetches returned
CombineData(addresses, prices, volatilities) ==
  [a \in Range(addresses) |->
     [price         |-> OrElse(MapGet(prices, a), 0),
      volatility24h |-> OrElse(MapGet(volatilities, a), 0)]]

\* a catch block that reports every address, cached or not
CachedDataOfEveryAddress(addresses, pCache, vCache) ==
  [a \in Range(addresses) |->
     [price         |-> OrElse(MapGet(pCache, a), 0),
      volatility24h |-> OrElse(MapGet(vCache, a), 0)]]

\* the result the catch block of getPriceData builds from the caches
CachedData(addresses, pCache, vCache) ==
  [a \in {x \in Range(addresses) :
            Truthy(MapGet(pCache, x)) \/ Truthy(MapGet(vCache, x))} |->
     [price         |-> OrElse(MapGet(pCache, a), 0),
      volatility24h |-> OrElse(MapGet(vCache, a), 0)]]

-----------------------------------------------------------------------------
(* PaymasterService *)

\* a string that is neither undefined nor empty
Given(x) == x # ""

\* the parsing of the pm_supported_tokens response: tokensResponse.tokens,
\* the response itself when it is an array, the first array among the
\* values of an object, or nothing
ParseTokensResponse(response) ==
  IF response.format \in {"tokens", "array", "object"}
    THEN response.list ELSE << >>

\* tokens.map(token => ({address: token.token || token.address, ...}))
NormalizeTokens(list) ==
  [i \in 1..Len(list) |->
     [address |-> IF Given(list[i].token) THEN list[i].token
                  ELSE list[i].address]]

\* supportedTokens.some(token => token.address.toLowerCase() ===
\* tokenAddress.toLowerCase())
IsTokenSupported(supported, tokenAddress) ==
  \E i \in 1..Len(supported) :
    ToLowerCase(supported[i].address) = ToLowerCase(tokenAddress)

\* an includes test on the user's address as it is written
IncludesAddressAsWritten(supported, token) ==
  LET supportedAddresses ==
        [i \in 1..Len(supported) |-> ToLowerCase(supported[i].address)]
  IN  \E i \in 1..Len(supportedAddresses) :
        supportedAddresses[i] = token.address

\* supportedAddresses.includes(token.address.toLowerCase())
IncludesAddress(supported, token) ==
  LET supportedAddresses ==
        [i \in 1..Len(supported) |-> ToLowerCase(supported[i].address)]
  IN  \E i \in 1..Len(supportedAddresses) :
        supportedAddresses[i] = ToLowerCase(token.address)

\* userTokens.filter(token => supportedAddresses.includes(...)): the
\* elements that pass, in their order
RECURSIVE FilterSupportedTokens(_, _)
FilterSupportedTokens(supported, userTokens) ==
  IF userTokens = << >> THEN << >>
  ELSE IF IncludesAddress(supported, Head(userTokens))
    THEN << Head(userTokens) >>
           \o FilterSupportedTokens(supported, Tail(userTokens))
  ELSE FilterSupportedTokens(supported, Tail(userTokens))

\* the cached list may be returned: there is one and it has not expired
\* (the second definition is the test of the code)
SupportedTokensCachedBeforeTTL(cached, timestamp, t) ==
  ~cached.null /\ t - timestamp < PaymasterCacheTTL

SupportedTokensCached(cached, timestamp, t) ==
  ~cached.null /\ t - timestamp <= PaymasterCacheTTL

\* the two validations of getPaymasterData: the message thrown, or ""
ValidatePaymasterRequestTypeOnly(type, tokenAddress) ==
  IF type \notin {0, 1, 2} THEN "Invalid payment type" ELSE ""

ValidatePaymasterRequest(type, tokenAddress) ==
  IF type \notin {0, 1, 2} THEN "Invalid payment type"
  ELSE IF type \in {1, 2} /\ ~Given(tokenAddress)
    THEN "Token address is required for payment type"
  ELSE ""

\* the params of pm_sponsorUserOperation: the token information is pushed
\* for type 1 or 2
SponsorParams(type, tokenAddress) ==
  IF type \in {1, 2}
    THEN [method |-> "pm_sponsorUserOperation", extra |-> TRUE,
          token |-> tokenAddress, type |-> type]
    ELSE [method |-> "pm_sponsorUserOperation", extra |-> FALSE,
          token |-> "", type |-> 0]

\* the request of getSupportedTokens
SupportedTokensRequest ==
  [method |-> "pm_supported_tokens", extra |-> FALSE, token |-> "", type |-> 0]

\* no result yet
NoOutcome == [kind |-> "none", list |-> << >>, flag |-> FALSE, text |-> ""]

\* no call of the paymaster service in progress
NoPaymasterCall ==
  [op |-> "", pc |-> "idle", address |-> "", userTokens |-> << >>,
   type |-> 0, supported |-> << >>, sent |-> << >>, outcome |-> NoOutcome]

\* the paymaster service as its constructor leaves it
PaymasterConstructed ==
  /\ supportedTokens = [null |-> TRUE, list |-> << >>]
  /\ supportedTokensTimestamp = 0
  /\ pmNow = PaymasterCacheTTL + 1
  /\ pmCall = NoPaymasterCall
  /\ pmCalls = 0

-----------------------------------------------------------------------------
(* The frontend: values *)

\* null and undefined (a state that holds null holds this string)
Null == "null"

\* the transaction hash of a receipt, and the messages of the errors the
\* libraries throw ("" for an error without message)
TransactionHashes == {"0xhash1", "0xhash2"}
ErrorMessages == {"", "user rejected"}

\* err.message || fallback
MessageOr(message, fallback) == IF message = "" THEN fallback ELSE message

-----------------------------------------------------------------------------
(* useUserOp *)

\* the state of the hook when it mounts
UserOpMounted ==
  [isLoading |-> FALSE, error |-> Null, aaWalletAddress |-> Null,
   txHash |-> Null]

\* no call of the hook yet
NoUserOpCall ==
  [op |-> "", pc |-> "idle", amount |-> "", paymentType |-> -1,
   paymentToken |-> Null,
   options |-> [set |-> FALSE, type |-> -1, token |-> Null],
   value |-> ""]

\* the fallback messages of executeTransfer, executeBatch and initClient
SendFallback(name) ==
  IF name = "executeTransfer" THEN "Error sending UserOperation"
                              ELSE "Error sending batch UserOperation"

InitClientFallback == "Error initializing AA client"

\* the message of the TypeError of receipt.transactionHash on a null receipt
NullReceiptMessage == "Cannot read properties of null"

\* the three setters at the start of executeTransfer and executeBatch
StartLoadingKeepingTxHash(state) ==
  [state EXCEPT !.isLoading = TRUE, !.error = Null]

StartLoading(state) ==
  [state EXCEPT !.isLoading = TRUE, !.error = Null, !.txHash = Null]

\* the success path after result.wait(): setTxHash, setIsLoading(false)
SettleWithHash(state, hash) ==
  [state EXCEPT !.txHash = hash, !.isLoading = FALSE]

\* the catch block: setError(err.message || fallback), setIsLoading(false)
SettleWithError(state, name, message) ==
  [state EXCEPT !.error = MessageOr(message, SendFallback(name)),
                !.isLoading = FALSE]

\* ethers.utils.parseUnits(amount.toString(), decimals) throws on a string
\* that is not a decimal number
ParseUnitsThrows(amount) ==
  CASE amount = "1.5" -> FALSE
    [] amount = "3"   -> FALSE
    [] amount = "0"   -> FALSE
    [] OTHER          -> TRUE

\* the paymaster options the builder is given: none unless paymentType is
\* defined and >= 0; the token is added for type 1 or 2 when there is one
PaymasterOptions(paymentType, paymentToken) ==
  IF paymentType >= 0
    THEN [set |-> TRUE, type |-> paymentType,
          token |-> IF paymentType \in {1, 2} /\ paymentToken # Null
                      THEN paymentToken ELSE Null]
    ELSE [set |-> FALSE, type |-> -1, token |-> Null]

\* a call is in progress
UserOpInFlight(call) == call.pc \in {"initClient", "sendUserOperation", "wait"}

\* executeTransfer(params) and executeBatch(params) up to await initClient
BeginUserOp(name, amount, paymentType, paymentToken) ==
  /\ userOp' = StartLoading(userOp)
  /\ userOpCall' = [NoUserOpCall EXCEPT !.op = name,
                                        !.pc = "initClient",
                                        !.amount = amount,
                                        !.paymentType = paymentType,
                                        !.paymentToken = paymentToken]

\* the catch block of the call in progress
UserOpCaught(message) ==
  /\ userOp' = SettleWithError(userOp, userOpCall.op, message)
  /\ userOpCall' = [userOpCall EXCEPT !.pc = "rejected", !.value = message]

\* initClient returns: setAaWalletAddress; the call data are encoded (which
\* throws in executeTransfer when parseUnits does), the paymaster options are
\* set, and the user operation is sent
UserOpInitClientReturns ==
  /\ userOpCall.pc = "initClient"
  /\ IF userOpCall.op = "executeTransfer" /\ ParseUnitsThrows(userOpCall.amount)
       THEN /\ userOp' = SettleWithError(
                           [userOp EXCEPT !.aaWalletAddress = "0xAAwallet"],
                           userOpCall.op, "invalid decimal value")
            /\ userOpCall' = [userOpCall EXCEPT
                                !.pc = "rejected",
                                !.value = "invalid decimal value"]
       ELSE /\ userOp' = [userOp EXCEPT !.aaWalletAddress = "0xAAwallet"]
            /\ userOpCall' = [userOpCall EXCEPT
                                !.pc = "sendUserOperation",
                                !.options = PaymasterOptions(
                                              userOpCall.paymentType,
                                              userOpCall.paymentToken)]

\* initClient throws: its own catch block sets the error and throws again,
\* and the catch block of the call sets it once more
UserOpInitClientThrows ==
  /\ userOpCall.pc = "initClient"
  /\ \E message \in ErrorMessages :
       /\ userOp' = SettleWithError(
                      [userOp EXCEPT
                         !.error = MessageOr(message, InitClientFallback)],
                      userOpCall.op, message)
       /\ userOpCall' = [userOpCall EXCEPT !.pc = "rejected",
                                           !.value = message]

\* client.sendUserOperation returns
UserOpSendReturns ==
  /\ userOpCall.pc = "sendUserOperation"
  /\ userOpCall' = [userOpCall EXCEPT !.pc = "wait"]
  /\ userOp' = userOp

\* client.sendUserOperation throws
UserOpSendThrows ==
  /\ userOpCall.pc = "sendUserOperation"
  /\ \E message \in ErrorMessages : UserOpCaught(message)

\* result.wait() returns the receipt
UserOpWaitReturns ==
  /\ userOpCall.pc = "wait"
  /\ \E hash \in TransactionHashes :
       /\ userOp' = SettleWithHash(userOp, hash)
       /\ userOpCall' = [userOpCall EXCEPT !.pc = "resolved", !.value = hash]

\* result.wait() returns null: reading receipt.transactionHash throws
UserOpWaitReturnsNull ==
  /\ userOpCall.pc = "wait"
  /\ UserOpCaught(NullReceiptMessage)

\* result.wait() throws
UserOpWaitThrows ==
  /\ userOpCall.pc = "wait"
  /\ \E message \in ErrorMessages : UserOpCaught(message)

-----------------------------------------------------------------------------
(* TransactionModal and PaymentPage *)

\* the state of the modal when it mounts; confirms counts the calls of
\* onConfirm since the modal was opened (history)
ModalMounted ==
  [status |-> "preparing", txHash |-> Null, error |-> Null, confirms |-> 0]

\* the message of the error executeTransaction throws
MissingMessage == "Missing signer or token"

\* the effect on isOpen: an opening resets the three states
ModalOpened(state) ==
  [state EXCEPT !.status = "preparing", !.txHash = Null, !.error = Null,
                !.confirms = 0]

\* the modal renders something: isOpen and a token
ModalShown(isOpen, token) == isOpen /\ token # Null

\* the controls the modal offers in a status: the confirm button, and the
\* close button of the header or of the footer
ConfirmOfferedInEveryStatus(status) == TRUE

ConfirmOffered(status) == status = "preparing"

CloseOffered(status) == status \in {"preparing", "success", "error"}

\* handleConfirm up to its await: setStatus('confirming') and, in the same
\* handler, setStatus('processing')
ModalConfirming(state) ==
  [[state EXCEPT !.status = "confirming"] EXCEPT
     !.status = "processing", !.confirms = state.confirms + 1]

\* handleConfirm after its await: the hash and 'success', or the message
\* of the error and 'error'
ModalSucceeded(state, hash) ==
  [state EXCEPT !.txHash = hash, !.status = "success"]

ModalFailed(state, message) ==
  [state EXCEPT !.error = MessageOr(message, "Transaction failed"),
                !.status = "error"]

\* what a number input can hold: the empty string or a number
AmountInputs == {"", "0", "3", "-2"}

\* the token of location.state and the token of its recommendation
PageToken == "0xaa"
RecommendedToken == "0xbb"

\* the state of PaymentPage when it mounts with a token and a
\* recommendation (null when location.state has none); alert is the
\* message the last handler showed, confirm is what the handleConfirm in
\* progress awaits: "thrown" when executeTransaction has thrown,
\* "executeTransfer" when it has called executeTransfer
PageMounted(token, recommended) ==
  [mounted |-> TRUE, token |-> token, recommended |-> recommended,
   signer |-> FALSE, amount |-> "", paymentType |-> 0,
   paymentToken |-> token, isModalOpen |-> FALSE, alert |-> Null,
   confirm |-> "none"]

\* the four validations of handleSubmitTransaction: the message of the
\* alert, or "" when the modal is to be opened
ValidateSubmissionWithoutSigner(state) ==
  IF state.amount = "" \/ (~ParseFloat(state.amount).nan
                            /\ ParseFloat(state.amount).val <= 0)
    THEN "Please enter a valid amount"
  ELSE IF state.token = Null THEN "No token selected"
  ELSE IF state.paymentType \in {1, 2} /\ state.paymentToken = Null
    THEN "Please select a token for gas payment"
  ELSE ""

ValidateSubmission(state) ==
  IF state.amount = "" \/ (~ParseFloat(state.amount).nan
                            /\ ParseFloat(state.amount).val <= 0)
    THEN "Please enter a valid amount"
  ELSE IF ~state.signer THEN "Wallet not connected"
  ELSE IF state.token = Null THEN "No token selected"
  ELSE IF state.paymentType \in {1, 2} /\ state.paymentToken = Null
    THEN "Please select a token for gas payment"
  ELSE ""

\* the guard of executeTransaction
MissingSignerOrToken(state) == ~state.signer \/ state.token = Null

-----------------------------------------------------------------------------
(* useWallet, useTokens and HomePage *)

\* the components that call useWallet on the home page, each with a state
\* of its own: the WalletConnect component and the useTokens hook
WalletInstances == {"WalletConnect", "useTokens"}

\* the accounts MetaMask can give
Accounts == {"0xacc1", "0xacc2"}

\* the state of a useWallet instance when it mounts; aaWalletAddress is that
\* of the useUserOp instance it owns, pc the position of its connectWallet
WalletMounted ==
  [account |-> Null, provider |-> FALSE, signer |-> FALSE,
   isConnecting |-> FALSE, connectionError |-> Null,
   aaWalletAddress |-> Null, pc |-> "idle"]

\* the state of an instance whose connectWallet has returned
WalletConnected(account) ==
  [WalletMounted EXCEPT !.account = account, !.provider = TRUE,
                        !.signer = TRUE, !.aaWalletAddress = "0xAAwallet"]

\* the guard of getTokens of useWallet: it throws 'Wallet not connected'
WalletNotConnected(instance) == ~instance.provider \/ instance.account = Null

\* the guard of getTokens of useTokens
NoWalletAddress(instance) ==
  instance.account = Null /\ instance.aaWalletAddress = Null

\* a wallet token as useWallet returns it, without the recommended property
WalletToken(address) == [address |-> address, recommended |-> "undefined"]

\* the lists useWallet can return for COMMON_TOKENS: the tokens with a
\* positive balance, in the order of COMMON_TOKENS
WalletTokenLists ==
  { << >>, << WalletToken(DAI) >>, << WalletToken(AAVE) >>,
    << WalletToken(DAI), WalletToken(AAVE) >> }

\* the state of useTokens when it mounts; recommendation is the address of
\* response.recommendation of the response stored by setRecommendation
TokensMounted ==
  [tokens |-> << >>, isLoading |-> FALSE, error |-> Null,
   recommendation |-> Null]

\* the calls of the hook: getTokens as HomePage calls it, getTokens as the
\* effect of the hook calls it, and getRecommendation
TokenCallers == {"HomePage", "effect", "getRecommendation"}

NoTokenCall == [pc |-> "idle", outcome |-> "none", sent |-> << >>]

NoTokenCalls == [c \in TokenCallers |-> NoTokenCall]

\* the responses of POST /recommend-token to a token list: the tokens the
\* paymaster supports among those sent are scored, allScores holds them all
\* and recommendation is one of them
RecommendationResponses(sent) ==
  UNION { { [recommendation |-> a, allScores |-> S] : a \in S } :
            S \in SUBSET { sent[i].address : i \in DOMAIN sent } }

AddressIn(address, addresses) ==
  \E a \in addresses : ToLowerCase(a) = ToLowerCase(address)

\* the map of getRecommendation over the token list
MarkRecommended(list, response) ==
  [i \in DOMAIN list |->
     IF ToLowerCase(list[i].address) = ToLowerCase(response.recommendation)
       THEN [list[i] EXCEPT !.recommended = "true"]
     ELSE IF AddressIn(list[i].address, response.allScores)
       THEN [list[i] EXCEPT !.recommended = "false"]
     ELSE list[i]]

\* the messages of useTokens
NotConnectedMessage == "Wallet not connected"
NoTokensMessage == "No tokens found"

\* getTokens of useTokens up to its await, on the state of the wallet
\* instance of the hook: fetchWalletTokens throws at once when that instance
\* has no provider or no account, and the catch block runs before anything
\* else does
TokensAfterGetTokens(state, instance) ==
  IF NoWalletAddress(instance)
    THEN [state EXCEPT !.error = NotConnectedMessage]
  ELSE IF WalletNotConnected(instance)
    THEN [state EXCEPT !.isLoading = FALSE, !.error = NotConnectedMessage]
  ELSE [state EXCEPT !.isLoading = TRUE, !.error = Null]

CallAfterGetTokens(instance) ==
  IF NoWalletAddress(instance) \/ WalletNotConnected(instance)
    THEN [NoTokenCall EXCEPT !.pc = "done", !.outcome = NotConnectedMessage]
    ELSE [NoTokenCall EXCEPT !.pc = "fetchWalletTokens"]

\* the state of HomePage when it mounts
HomeMounted == [walletConnected |-> FALSE]

\* the frontend before any of its components is used
FrontendMounted ==
  /\ userOp = UserOpMounted
  /\ userOpCall = NoUserOpCall
  /\ page = PageMounted(Null, Null)
  /\ modal = ModalMounted
  /\ tokenState = TokensMounted
  /\ tokenCalls = NoTokenCalls
  /\ wallet = [i \in WalletInstances |-> WalletMounted]
  /\ home = HomeMounted
  /\ frontSteps = 0

-----------------------------------------------------------------------------
(* The inputs of the model *)

Addresses == {"0xAA", "0xbb"}
BalanceInputs == {"0", "3", "1000", "abc"}
Tokens == [address : Addresses, balance : BalanceInputs]

NoTokens == [null |-> TRUE, list |-> << >>]
TokenLists ==
  {NoTokens} \cup
  {[null |-> FALSE, list |-> l] :
     l \in UNION {[1..n -> Tokens] : n \in 0..MaxTokens}}

Keys == {ToLowerCase(a) : a \in Addresses}

\* price in cents: unpriced, $1.00
PriceInputs == {0, 100}
\* volatility24h in hundredths of a percent: missing, 0%, 0.5%, 150%
VolatilityInputs == {Undefined, 0, 50, 15000}
\* slippage in thousandths of a percent: 0%, 0.1%, 15%
SlippageInputs == {0, 100, 15000}

\* an entry as getPriceData builds it: an unpriced one has price 0 and
\* volatility 0
PriceEntries ==
  {[price |-> 0, volatility24h |-> 0]} \cup
  [price : PriceInputs \ {0}, volatility24h : VolatilityInputs]
PriceDatas == UNION {[K -> PriceEntries] : K \in SUBSET Keys}
SlippageDatas ==
  UNION {[K -> [slippage : SlippageInputs]] : K \in SUBSET Keys}

NoData == [k \in {} |-> [slippage |-> 0]]
NoResult == [null |-> TRUE]

-----------------------------------------------------------------------------
(* The state machine: one call of the scorer per behaviour, on inputs that *)
(* the initial state draws                                                 *)

InitScoreTokens ==
  /\ op = "scoreTokens"
  /\ tokens \in TokenLists
  /\ priceData \in PriceDatas
  /\ slippageData \in SlippageDatas
  /\ usdArg = 0

InitNormalizeBalance ==
  /\ op = "_normalizeBalance"
  /\ tokens = NoTokens
  /\ priceData = NoData
  /\ slippageData = NoData
  /\ usdArg \in 1..MaxUsdCents

\* the getPriceData calls that can be in flight at once
Callers == {"A", "B"}

\* a call of getPriceData that has not started
IdleCall ==
  [pc |-> "idle", addresses |-> << >>, prices |-> EmptyMap,
   volatilities |-> EmptyMap, out |-> EmptyMap,
   fetchedPrices |-> {}, fetchedVolatilities |-> {}, threw |-> ""]

\* the price service as its constructor leaves it, with no call in flight
ServiceConstructed ==
  /\ priceCache = EmptyMap
  /\ volatilityCache = EmptyMap
  /\ now = 1
  /\ calls = [c \in Callers |-> IdleCall]
  /\ requests = 0
  /\ lastWrite = [price |-> EmptyMap, volatility |-> EmptyMap]

Init ==
  /\ InitScoreTokens \/ InitNormalizeBalance
  /\ result = NoResult
  /\ pc = "call"
  /\ ServiceConstructed
  /\ PaymasterConstructed
  /\ FrontendMounted

\* a scoreTokens that sorts the caller's array itself
CallScoreTokensSortingInPlace ==
  /\ pc = "call"
  /\ op = "scoreTokens"
  /\ result' = ScoreTokens(tokens, priceData, slippageData)
  /\ tokens' =
       IF result'.null THEN tokens
       ELSE [tokens EXCEPT !.list =
               [i \in 1..Len(result'.allScores) |->
                  [address |-> result'.allScores[i].address,
                   balance |-> result'.allScores[i].balance]]]
  /\ pc' = "done"
  /\ UNCHANGED <<op, priceData, slippageData, usdArg>>
  /\ UNCHANGED serviceVars
  /\ UNCHANGED paymasterVars
  /\ UNCHANGED frontVars

CallScoreTokens ==
  /\ pc = "call"
  /\ op = "scoreTokens"
  /\ result' = ScoreTokens(tokens, priceData, slippageData)
  /\ pc' = "done"
  /\ UNCHANGED <<op, tokens, priceData, slippageData, usdArg>>
  /\ UNCHANGED serviceVars
  /\ UNCHANGED paymasterVars
  /\ UNCHANGED frontVars

CallNormalizeBalance ==
  /\ pc = "call"
  /\ op = "_normalizeBalance"
  /\ result' = [null |-> FALSE, value |-> NormalizeBalance(usdArg)]
  /\ pc' = "done"
  /\ UNCHANGED <<op, tokens, priceData, slippageData, usdArg>>
  /\ UNCHANGED serviceVars
  /\ UNCHANGED paymasterVars
  /\ UNCHANGED frontVars

Next == CallScoreTokens \/ CallNormalizeBalance

Spec == Init /\ [][Next]_vars

-----------------------------------------------------------------------------
(* The price service: getPriceData calls that interleave at their awaits,  *)
(* while the clock advances                                                *)

ServiceAddresses == {DAI, "0xBb"}
ServiceTokens == [address : ServiceAddresses]
\* the tokens argument of getPriceData: missing, or a list of tokens with
\* different addresses
RequestLists ==
  {NoTokens} \cup
  {[null |-> FALSE, list |-> l] :
     l \in {x \in UNION {[1..n -> ServiceTokens] : n \in 0..MaxTokens} :
              \A i, j \in 1..Len(x) : x[i] = x[j] => i = j}}

\* what Math.random() * 10 + 0.1 and Math.random() * 14 + 1 can give
RandomPrices == {50, 700}
RandomVolatilities == {1500}

ServiceInit ==
  /\ op = "getPriceData"
  /\ tokens = NoTokens
  /\ priceData = NoData
  /\ slippageData = NoData
  /\ usdArg = 0
  /\ result = NoResult
  /\ pc = "idle"
  /\ ServiceConstructed
  /\ PaymasterConstructed
  /\ FrontendMounted

\* the history of the writes: the entries a fetch step stored at time t
Written(history, fetched, values, t) ==
  [a \in DOMAIN history \cup fetched |->
     IF a \in fetched THEN [value |-> values[a], at |-> t]
     ELSE history[a]]

\* getPriceData(tokens) up to its first await; the caller has taken the
\* result of its previous call
StartGetPriceData(c) ==
  /\ calls[c].pc \in {"idle", "returned"}
  /\ requests < MaxRequests
  /\ requests' = requests + 1
  /\ \E ts \in RequestLists :
       IF ts.null \/ Len(ts.list) = 0
         THEN calls' = [calls EXCEPT ![c] = [IdleCall EXCEPT !.pc = "returned"]]
         ELSE calls' = [calls EXCEPT ![c] =
                [IdleCall EXCEPT
                   !.pc = "fetchPrice",
                   !.addresses =
                      [i \in 1..Len(ts.list) |-> ToLowerCase(ts.list[i].address)]]]
  /\ UNCHANGED <<priceCache, volatilityCache, now, lastWrite>>
  /\ UNCHANGED scorerVars
  /\ UNCHANGED paymasterVars
  /\ UNCHANGED frontVars

\* await this._fetchPriceData(addresses), returning
FetchPrice(c) ==
  /\ calls[c].pc = "fetchPrice"
  /\ \E random \in [Range(calls[c].addresses) -> RandomPrices] :
       LET r == FetchPriceData(priceCache, calls[c].addresses, now, random) IN
       /\ priceCache' = r.cache
       /\ calls' = [calls EXCEPT ![c].pc = "fetchVolatility",
                                 ![c].prices = r.result,
                                 ![c].fetchedPrices = r.fetched]
       /\ lastWrite' = [lastWrite EXCEPT !.price =
                          Written(lastWrite.price, r.fetched, r.result, now)]
  /\ UNCHANGED <<volatilityCache, now, requests>>
  /\ UNCHANGED scorerVars
  /\ UNCHANGED paymasterVars
  /\ UNCHANGED frontVars

\* a getPriceData that goes on to the volatility fetch after the price
\* fetch threw
FetchPriceThrowsAndGoesOn(c) ==
  /\ calls[c].pc = "fetchPrice"
  /\ \E a \in Range(calls[c].addresses) : NeedsPriceFetch(priceCache, a, now)
  /\ calls' = [calls EXCEPT ![c].pc = "fetchVolatility", ![c].threw = "price"]
  /\ UNCHANGED <<priceCache, volatilityCache, now, requests, lastWrite>>
  /\ UNCHANGED scorerVars
  /\ UNCHANGED paymasterVars
  /\ UNCHANGED frontVars

\* await this._fetchPriceData(addresses), the request to the data source
\* throwing: there is one only when some address needs fresh data
FetchPriceThrows(c) ==
  /\ calls[c].pc = "fetchPrice"
  /\ \E a \in Range(calls[c].addresses) : NeedsPriceFetch(priceCache, a, now)
  /\ calls' = [calls EXCEPT ![c].pc = "catch", ![c].threw = "price"]
  /\ UNCHANGED <<priceCache, volatilityCache, now, requests, lastWrite>>
  /\ UNCHANGED scorerVars
  /\ UNCHANGED paymasterVars
  /\ UNCHANGED frontVars

\* await this._fetchVolatilityData(addresses), returning, and the rest of
\* the try block, which reads the two results only: combine and return
FetchVolatility(c) ==
  /\ calls[c].pc = "fetchVolatility"
  /\ \E random \in [Range(calls[c].addresses) -> RandomVolatilities] :
       LET r == FetchVolatilityData(volatilityCache, calls[c].addresses, now,
                                    random) IN
       /\ volatilityCache' = r.cache
       /\ calls' = [calls EXCEPT
            ![c].pc = "returned",
            ![c].volatilities = r.result,
            ![c].fetchedVolatilities = r.fetched,
            ![c].out = CombineData(calls[c].addresses, calls[c].prices,
                                   r.result)]
       /\ lastWrite' = [lastWrite EXCEPT !.volatility =
                          Written(lastWrite.volatility, r.fetched, r.result, now)]
  /\ UNCHANGED <<priceCache, now, requests>>
  /\ UNCHANGED scorerVars
  /\ UNCHANGED paymasterVars
  /\ UNCHANGED frontVars

\* a throwing fetch that first marks the entries of its batch as never
\* fetched
FetchVolatilityThrowsResettingTimes(c) ==
  /\ calls[c].pc = "fetchVolatility"
  /\ \E a \in Range(calls[c].addresses) :
       NeedsVolatilityFetch(volatilityCache, a, now)
  /\ calls' = [calls EXCEPT ![c].pc = "catch", ![c].threw = "volatility"]
  /\ volatilityCache' =
       [k \in DOMAIN volatilityCache |->
          IF k \in {VolatilityTimeKey(a) : a \in Range(calls[c].addresses)}
            THEN 0 ELSE volatilityCache[k]]
  /\ UNCHANGED <<priceCache, now, requests, lastWrite>>
  /\ UNCHANGED scorerVars
  /\ UNCHANGED paymasterVars
  /\ UNCHANGED frontVars

\* await this._fetchVolatilityData(addresses), throwing
FetchVolatilityThrows(c) ==
  /\ calls[c].pc = "fetchVolatility"
  /\ \E a \in Range(calls[c].addresses) :
       NeedsVolatilityFetch(volatilityCache, a, now)
  /\ calls' = [calls EXCEPT ![c].pc = "catch", ![c].threw = "volatility"]
  /\ UNCHANGED <<priceCache, volatilityCache, now, requests, lastWrite>>
  /\ UNCHANGED scorerVars
  /\ UNCHANGED paymasterVars
  /\ UNCHANGED frontVars

\* the catch block: return what the caches hold
Catch(c) ==
  /\ calls[c].pc = "catch"
  /\ calls' = [calls EXCEPT
       ![c].pc = "returned",
       ![c].out = CachedData(calls[c].addresses, priceCache, volatilityCache)]
  /\ UNCHANGED <<priceCache, volatilityCache, now, requests, lastWrite>>
  /\ UNCHANGED scorerVars
  /\ UNCHANGED paymasterVars
  /\ UNCHANGED frontVars

\* Date.now() advances
Tick ==
  /\ now < MaxTime
  /\ requests < MaxRequests \/ \E c \in Callers : calls[c].pc # "returned"
  /\ now' = now + 1
  /\ UNCHANGED <<priceCache, volatilityCache, calls, requests, lastWrite>>
  /\ UNCHANGED scorerVars
  /\ UNCHANGED paymasterVars
  /\ UNCHANGED frontVars

ServiceNext ==
  \/ \E c \in Callers :
       \/ StartGetPriceData(c)
       \/ FetchPrice(c)
       \/ FetchPriceThrows(c)
       \/ FetchVolatility(c)
       \/ FetchVolatilityThrows(c)
       \/ Catch(c)
  \/ Tick

SpecService == ServiceInit /\ [][ServiceNext]_vars

-----------------------------------------------------------------------------
(* Vocabulary of the properties *)

\* scoreTokens has returned a recommendation
ScoreDone == pc = "done" /\ op = "scoreTokens" /\ ~result.null

InputIndexes == 1..Len(tokens.list)
OutputIndexes == 1..Len(result.allScores)

\* the positions of allScores that hold the scored copy of token t
EntriesOf(t) ==
  {j \in OutputIndexes :
     /\ result.allScores[j].address = t.address
     /\ result.allScores[j].balance = t.balance}

\* what the caller supplied for token t
GivenBalance(t) == ParseFloat(t.balance)
HasPriceEntry(t) == ToLowerCase(t.address) \in DOMAIN priceData
GivenPrice(t) == priceData[ToLowerCase(t.address)].price
GivenVolatility(t) == priceData[ToLowerCase(t.address)].volatility24h
HasSlippageEntry(t) == ToLowerCase(t.address) \in DOMAIN slippageData
GivenSlippage(t) == slippageData[ToLowerCase(t.address)].slippage

ZeroBalance(t) == GivenBalance(t).nan \/ GivenBalance(t).val = 0
PositiveBalance(t) == ~GivenBalance(t).nan /\ GivenBalance(t).val > 0
Priced(t) == HasPriceEntry(t) /\ GivenPrice(t) > 0
\* positive USD balance and positive price: the asset is not short-circuited
FullyScored(t) == PositiveBalance(t) /\ Priced(t)
GivenUsd(t) == GivenBalance(t).val * GivenPrice(t)

One == 10 * Scale

-----------------------------------------------------------------------------
(* Properties of scoreTokens *)

\* C1: every asset whose balance is 0 is returned with score exactly 0 and
\* the single reason "Zero balance", whatever its price, volatility and
\* slippage are, also when its price is 0 or missing.
C1_ZeroBalanceScoresZero ==
  ScoreDone =>
    \A i \in InputIndexes :
      LET t == tokens.list[i] IN
      ZeroBalance(t) =>
        /\ EntriesOf(t) # {}
        /\ \A j \in EntriesOf(t) :
             /\ result.allScores[j].score = 0
             /\ result.allScores[j].reasons = << "Zero balance" >>

\* a zero-balance asset whose price is 0 too has been scored, next to one
\* that has a price, a volatility and a slippage
C1_Witness ==
  /\ ScoreDone
  /\ \E i \in InputIndexes :
       /\ tokens.list[i].balance = "0"
       /\ HasPriceEntry(tokens.list[i])
       /\ GivenPrice(tokens.list[i]) = 0
  /\ \E i \in InputIndexes :
       /\ tokens.list[i].balance = "0"
       /\ Priced(tokens.list[i])
       /\ GivenVolatility(tokens.list[i]) = 50
       /\ HasSlippageEntry(tokens.list[i])
  /\ result.recommendedToken.reasons = << "Zero balance" >>

\* C2: an asset with a positive balance whose price is 0, or that has no
\* market data entry, is returned with score 0 and reasons equal to
\* <<"No price data available">>.
C2_UnpricedReportsNoPriceData ==
  ScoreDone =>
    \A i \in InputIndexes :
      LET t == tokens.list[i] IN
      (PositiveBalance(t) /\ ~Priced(t)) =>
        /\ EntriesOf(t) # {}
        /\ \A j \in EntriesOf(t) :
             /\ result.allScores[j].score = 0
             /\ result.allScores[j].reasons = << "No price data available" >>

\* C3: an asset whose balance sub-score is 1, with volatility24h = 0 and
\* slippage = 0, is returned with volatilityScore 1, slippageScore 1 and
\* score 1.0.
C3_PerfectAssetScoresOne ==
  ScoreDone =>
    \A i \in InputIndexes :
      LET t == tokens.list[i] IN
      ( /\ FullyScored(t)
        /\ NormalizeBalance(GivenUsd(t)) = Scale
        /\ GivenVolatility(t) = 0
        /\ HasSlippageEntry(t)
        /\ GivenSlippage(t) = 0 ) =>
        \A j \in EntriesOf(t) :
          /\ result.allScores[j].volatilityScore = Scale
          /\ result.allScores[j].slippageScore = Scale
          /\ result.allScores[j].score = One

\* C4 as claimed: every returned score lies in [0, 1].
C4_ScoreInUnitRange ==
  ScoreDone =>
    /\ result.recommendedToken.score >= 0
    /\ result.recommendedToken.score <= One
    /\ \A j \in OutputIndexes :
         /\ result.allScores[j].score >= 0
         /\ result.allScores[j].score <= One

\* C4, amended: every returned score is at most 1, and it is at least 0 for
\* every asset whose volatility24h is at most 100 and whose slippage is at
\* most 10 (a missing value counts as within the limit).
C4_ScoreAtMostOneAndNonNegativeWithinLimits ==
  ScoreDone =>
    /\ result.recommendedToken.score <= One
    /\ \A i \in InputIndexes :
         LET t == tokens.list[i] IN
         \A j \in EntriesOf(t) :
           /\ result.allScores[j].score <= One
           /\ ( /\ HasPriceEntry(t) =>
                     GivenVolatility(t) <= 100 * VolUnitsPerPercent
                /\ HasSlippageEntry(t) =>
                     GivenSlippage(t) <= 10 * SlipUnitsPerPercent )
                => result.allScores[j].score >= 0

\* one call returned a score strictly between 0 and 1 and a negative one
C4_Witness ==
  /\ ScoreDone
  /\ \E j \in OutputIndexes :
       /\ result.allScores[j].score > 0
       /\ result.allScores[j].score < One
  /\ \E j \in OutputIndexes : result.allScores[j].score < 0

\* C5: for an asset with positive USD balance and positive price, a
\* volatility24h above 100 gives volatilityScore = 1 - volatility/100 < 0, a
\* slippage above 10 gives slippageScore = 1 - slippage/10 < 0, and the score
\* is 0.4 * balance sub-score + 0.3 * volatilityScore + 0.3 * slippageScore
\* with these negative values.
C5_SubScoresNotClampedBelowZero ==
  ScoreDone =>
    \A i \in InputIndexes :
      LET t == tokens.list[i] IN
      FullyScored(t) =>
        \A j \in EntriesOf(t) :
          LET e == result.allScores[j]
              highVolatility == GivenVolatility(t) > 100 * VolUnitsPerPercent
              highSlippage ==
                /\ HasSlippageEntry(t)
                /\ GivenSlippage(t) > 10 * SlipUnitsPerPercent
          IN  /\ highVolatility =>
                   /\ e.volatilityScore * 100 * VolUnitsPerPercent
                        = Scale * (100 * VolUnitsPerPercent - GivenVolatility(t))
                   /\ e.volatilityScore < 0
              /\ highSlippage =>
                   /\ e.slippageScore * 10 * SlipUnitsPerPercent
                        = Scale * (10 * SlipUnitsPerPercent - GivenSlippage(t))
                   /\ e.slippageScore < 0
              /\ (highVolatility \/ highSlippage) =>
                   e.score = 4 * NormalizeBalance(GivenUsd(t))
                               + 3 * e.volatilityScore + 3 * e.slippageScore

\* an asset with 150% volatility and 15% slippage got -0.5 and -0.5
C5_Witness ==
  /\ ScoreDone
  /\ \E i \in InputIndexes :
       /\ FullyScored(tokens.list[i])
       /\ GivenVolatility(tokens.list[i]) = 150 * VolUnitsPerPercent
       /\ HasSlippageEntry(tokens.list[i])
       /\ GivenSlippage(tokens.list[i]) = 15 * SlipUnitsPerPercent
       /\ \E j \in EntriesOf(tokens.list[i]) :
            /\ 2 * result.allScores[j].volatilityScore = 0 - Scale
            /\ 2 * result.allScores[j].slippageScore = 0 - Scale
            /\ result.allScores[j].score < 0

\* C7: scoreTokens returns null, and does return, when the token list is
\* empty or missing, and it returns a recommendation for every non-empty
\* token list, even when every asset scores 0.
C7_NullExactlyWhenNoTokens ==
  (pc = "done" /\ op = "scoreTokens") =>
    /\ (tokens.null \/ Len(tokens.list) = 0) => result.null
    /\ (~tokens.null /\ Len(tokens.list) > 0) =>
         /\ ~result.null
         /\ DOMAIN result = {"null", "recommendedToken", "allScores"}

\* a recommendation was returned for a list whose assets all score 0
C7_Witness ==
  /\ ScoreDone
  /\ Len(tokens.list) > 1
  /\ \A j \in OutputIndexes : result.allScores[j].score = 0

\* C8: allScores has exactly one scored entry per input asset, is ordered by
\* non-increasing score, and recommendedToken is its first element, so that
\* no entry has a strictly higher score than recommendedToken.
C8_RankedOnePerAsset ==
  ScoreDone =>
    /\ Len(result.allScores) = Len(tokens.list)
    /\ \A i \in InputIndexes :
         Cardinality(EntriesOf(tokens.list[i])) =
           Cardinality({k \in InputIndexes : tokens.list[k] = tokens.list[i]})
    /\ \A j \in OutputIndexes :
         \E i \in InputIndexes : j \in EntriesOf(tokens.list[i])
    /\ \A j, k \in OutputIndexes :
         j < k => result.allScores[j].score >= result.allScores[k].score
    /\ result.recommendedToken = result.allScores[1]
    /\ \A j \in OutputIndexes :
         result.allScores[j].score <= result.recommendedToken.score

\* the asset given last was ranked first, with a strictly higher score
C8_Witness ==
  /\ ScoreDone
  /\ Len(tokens.list) > 1
  /\ tokens.list[1] # tokens.list[Len(tokens.list)]
  /\ EntriesOf(tokens.list[Len(tokens.list)]) = {1}
  /\ result.allScores[1].score > result.allScores[2].score

\* the scored copies, in input order, of the assets that score v
ScoredInputs == MapScore(tokens.list, priceData, slippageData)
WithScore(s, v) == SelectSeq(s, LAMBDA e : e.score = v)

\* C9: assets with equal scores keep their relative input order in
\* allScores, and when several assets tie for the top score recommendedToken
\* is the one that comes first in the input.
C9_TiesKeepInputOrder ==
  ScoreDone =>
    LET scored == ScoredInputs IN
    /\ \A j \in OutputIndexes :
         LET v == result.allScores[j].score IN
         WithScore(result.allScores, v) = WithScore(scored, v)
    /\ result.recommendedToken =
         Head(WithScore(scored, result.allScores[1].score))

\* two different assets tie for a positive top score
C9_Witness ==
  /\ ScoreDone
  /\ Len(result.allScores) > 1
  /\ result.allScores[1].score > 0
  /\ result.allScores[1].score = result.allScores[2].score
  /\ result.allScores[1] # result.allScores[2]
  /\ result.recommendedToken.address = tokens.list[1].address

-----------------------------------------------------------------------------
(* Properties of _normalizeBalance *)

BalanceDone == pc = "done" /\ op = "_normalizeBalance"

\* the distances, in cents, at which a smaller balance is compared
Steps == {1, 7, 100, 4999}

\* C10: the balance sub-score is non-decreasing in the USD balance over the
\* positive balances, also across the $5 threshold between the linear and
\* the logarithmic branch, and it never exceeds 1.
C10_BalanceScoreMonotone ==
  BalanceDone =>
    /\ result.value <= Scale
    /\ \A d \in Steps :
         usdArg - d >= 1 => NormalizeBalance(usdArg - d) <= result.value
    /\ usdArg < MinBalance * CentsPerUsd =>
         10 * MinBalance * CentsPerUsd * result.value = 3 * Scale * usdArg
    /\ usdArg >= MinBalance * CentsPerUsd =>
         \/ result.value = Scale
         \/ result.value = MathLog(usdArg) \div LogDivisor

\* the balance is exactly $5.00, the first of the logarithmic branch, and
\* its score is above that of $4.99, the last of the linear branch
C10_Witness ==
  /\ BalanceDone
  /\ usdArg = MinBalance * CentsPerUsd
  /\ result.value > NormalizeBalance(usdArg - 1)
  /\ result.value < Scale

-----------------------------------------------------------------------------
(* scoreTokens on a wallet of DAI and AAVE, with the market data that the  *)
(* price service gives for them and some other market conditions           *)

ScenarioAddresses == {DAI, AAVE}
ScenarioBalances == {"3", "20", "50", "100", "1000"}
ScenarioTokens == [address : ScenarioAddresses, balance : ScenarioBalances]
ScenarioTokenLists ==
  {[null |-> FALSE, list |-> l] :
     l \in UNION {[1..n -> ScenarioTokens] : n \in 0..MaxTokens}}

\* price in cents: the mock price, and DAI a cent under its peg
ScenarioPrices(a) ==
  IF a = DAI THEN {MockPrices(a), MockPrices(a) - 1} ELSE {MockPrices(a)}
\* volatility24h: the mock value, and 3% for DAI, 25% for AAVE
ScenarioVolatilities(a) ==
  {MockVolatility(a)} \cup
    (IF a = DAI THEN {3 * VolUnitsPerPercent} ELSE {25 * VolUnitsPerPercent})
\* slippage: the mock value, and 4% for AAVE
ScenarioSlippages(a) ==
  {MockSlippage(a)} \cup (IF a = DAI THEN {} ELSE {4 * SlipUnitsPerPercent})

ScenarioPriceDatas ==
  {pd \in [ScenarioAddresses ->
             [price : UNION {ScenarioPrices(a) : a \in ScenarioAddresses},
              volatility24h :
                UNION {ScenarioVolatilities(a) : a \in ScenarioAddresses}]] :
     \A a \in ScenarioAddresses :
       /\ pd[a].price \in ScenarioPrices(a)
       /\ pd[a].volatility24h \in ScenarioVolatilities(a)}
ScenarioSlippageDatas ==
  {sd \in [ScenarioAddresses ->
             [slippage :
                UNION {ScenarioSlippages(a) : a \in ScenarioAddresses}]] :
     \A a \in ScenarioAddresses : sd[a].slippage \in ScenarioSlippages(a)}

ScenarioInit ==
  /\ op = "scoreTokens"
  /\ tokens \in ScenarioTokenLists
  /\ priceData \in ScenarioPriceDatas
  /\ slippageData \in ScenarioSlippageDatas
  /\ usdArg = 0
  /\ result = NoResult
  /\ pc = "call"
  /\ ServiceConstructed
  /\ PaymasterConstructed
  /\ FrontendMounted

ScenarioNext == CallScoreTokens

SpecScenario == ScenarioInit /\ [][ScenarioNext]_vars

-----------------------------------------------------------------------------
(* The paymaster service: one caller, one call after the other *)

\* the addresses of the user's tokens, and the user's token lists
PaymasterUserAddresses == {"0xaa", "0xBb", "0xcc"}
PaymasterUserTokens == [address : PaymasterUserAddresses]
UserTokenLists == UNION {[1..n -> PaymasterUserTokens] : n \in 0..MaxTokens}

\* the tokens of a pm_supported_tokens response, with the address under
\* token or under address, and the responses
ResponseTokenAA == [token |-> "0xAA", address |-> ""]
ResponseTokenBb == [token |-> "", address |-> "0xbb"]
ResponseLists ==
  {<< >>, <<ResponseTokenAA>>, <<ResponseTokenBb>>,
   <<ResponseTokenAA, ResponseTokenBb>>}
TokensResponses ==
  [format : {"tokens", "array", "object"}, list : ResponseLists]
    \cup {[format |-> "other", list |-> << >>]}

\* the type and tokenAddress arguments of getPaymasterData
PaymentTypes == {0, 1, 2, 3}
TokenAddressArguments == {"", "0xaa"}
\* the responses of pm_sponsorUserOperation
SponsorResponses == {"0xpaymasterAndData"}

SpecPaymasterInit ==
  /\ op = "paymaster"
  /\ tokens = NoTokens
  /\ priceData = NoData
  /\ slippageData = NoData
  /\ usdArg = 0
  /\ result = NoResult
  /\ pc = "idle"
  /\ ServiceConstructed
  /\ PaymasterConstructed
  /\ FrontendMounted

\* a new call may start: none is in progress
CanStartPaymasterCall ==
  /\ pmCall.pc \in {"idle", "returned", "threw"}
  /\ pmCalls < MaxPaymasterCalls

\* what the caller of getSupportedTokens does with the list it gets
WithSupportedTokens(call, supported) ==
  [call EXCEPT
     !.pc = "returned",
     !.supported = supported,
     !.outcome =
        CASE call.op = "getSupportedTokens" ->
               [NoOutcome EXCEPT !.kind = "list", !.list = supported]
          [] call.op = "isTokenSupported" ->
               [NoOutcome EXCEPT
                  !.kind = "flag",
                  !.flag = IsTokenSupported(supported, call.address)]
          [] call.op = "filterSupportedTokens" ->
               [NoOutcome EXCEPT
                  !.kind = "list",
                  !.list = FilterSupportedTokens(supported, call.userTokens)]]

\* getSupportedTokens up to its await: the cached list, or the RPC request
BeginGetSupportedTokens(call) ==
  IF SupportedTokensCached(supportedTokens, supportedTokensTimestamp, pmNow)
    THEN WithSupportedTokens(call, supportedTokens.list)
    ELSE [call EXCEPT !.pc = "rpc", !.sent = << SupportedTokensRequest >>]

\* getSupportedTokens()
CallGetSupportedTokens ==
  /\ CanStartPaymasterCall
  /\ pmCalls' = pmCalls + 1
  /\ pmCall' = BeginGetSupportedTokens(
                  [NoPaymasterCall EXCEPT !.op = "getSupportedTokens"])
  /\ UNCHANGED <<supportedTokens, supportedTokensTimestamp, pmNow>>
  /\ UNCHANGED <<scorerVars, serviceVars>>
  /\ UNCHANGED frontVars

\* isTokenSupported(tokenAddress)
CallIsTokenSupported ==
  /\ CanStartPaymasterCall
  /\ pmCalls' = pmCalls + 1
  /\ \E tokenAddress \in PaymasterUserAddresses :
       pmCall' = BeginGetSupportedTokens(
                   [NoPaymasterCall EXCEPT !.op = "isTokenSupported",
                                           !.address = tokenAddress])
  /\ UNCHANGED <<supportedTokens, supportedTokensTimestamp, pmNow>>
  /\ UNCHANGED <<scorerVars, serviceVars>>
  /\ UNCHANGED frontVars

\* filterSupportedTokens(userTokens)
CallFilterSupportedTokens ==
  /\ CanStartPaymasterCall
  /\ pmCalls' = pmCalls + 1
  /\ \E userTokens \in UserTokenLists :
       pmCall' = BeginGetSupportedTokens(
                   [NoPaymasterCall EXCEPT !.op = "filterSupportedTokens",
                                           !.userTokens = userTokens])
  /\ UNCHANGED <<supportedTokens, supportedTokensTimestamp, pmNow>>
  /\ UNCHANGED <<scorerVars, serviceVars>>
  /\ UNCHANGED frontVars

\* the pm_supported_tokens request returns: parse, normalize, update the
\* cache, return
SupportedTokensReturns ==
  /\ pmCall.pc = "rpc"
  /\ pmCall.op # "getPaymasterData"
  /\ \E tokensResponse \in TokensResponses :
       LET normalizedTokens ==
             NormalizeTokens(ParseTokensResponse(tokensResponse)) IN
       /\ supportedTokens' = [null |-> FALSE, list |-> normalizedTokens]
       /\ supportedTokensTimestamp' = pmNow
       /\ pmCall' = WithSupportedTokens(pmCall, normalizedTokens)
  /\ UNCHANGED <<pmNow, pmCalls>>
  /\ UNCHANGED <<scorerVars, serviceVars>>
  /\ UNCHANGED frontVars

\* the pm_supported_tokens request throws: the catch block returns
\* this.supportedTokens || []
SupportedTokensThrows ==
  /\ pmCall.pc = "rpc"
  /\ pmCall.op # "getPaymasterData"
  /\ pmCall' = WithSupportedTokens(
                  pmCall,
                  IF supportedTokens.null THEN << >> ELSE supportedTokens.list)
  /\ UNCHANGED <<supportedTokens, supportedTokensTimestamp, pmNow, pmCalls>>
  /\ UNCHANGED <<scorerVars, serviceVars>>
  /\ UNCHANGED frontVars

\* getPaymasterData(userOp, type, tokenAddress) up to its await
CallGetPaymasterData ==
  /\ CanStartPaymasterCall
  /\ pmCalls' = pmCalls + 1
  /\ \E type \in PaymentTypes : \E tokenAddress \in TokenAddressArguments :
       LET call  == [NoPaymasterCall EXCEPT !.op = "getPaymasterData",
                                           !.type = type,
                                           !.address = tokenAddress]
           error == ValidatePaymasterRequest(type, tokenAddress)
       IN  pmCall' =
             IF error # ""
               THEN [call EXCEPT
                       !.pc = "threw",
                       !.outcome = [NoOutcome EXCEPT !.kind = "error",
                                                     !.text = error]]
               ELSE [call EXCEPT
                       !.pc = "rpc",
                       !.sent = << SponsorParams(type, tokenAddress) >>]
  /\ UNCHANGED <<supportedTokens, supportedTokensTimestamp, pmNow>>
  /\ UNCHANGED <<scorerVars, serviceVars>>
  /\ UNCHANGED frontVars

\* the pm_sponsorUserOperation request returns
SponsorReturns ==
  /\ pmCall.pc = "rpc"
  /\ pmCall.op = "getPaymasterData"
  /\ \E response \in SponsorResponses :
       pmCall' = [pmCall EXCEPT
                    !.pc = "returned",
                    !.outcome = [NoOutcome EXCEPT !.kind = "response",
                                                  !.text = response]]
  /\ UNCHANGED <<supportedTokens, supportedTokensTimestamp, pmNow, pmCalls>>
  /\ UNCHANGED <<scorerVars, serviceVars>>
  /\ UNCHANGED frontVars

\* the pm_sponsorUserOperation request throws: the error is thrown again
SponsorThrows ==
  /\ pmCall.pc = "rpc"
  /\ pmCall.op = "getPaymasterData"
  /\ pmCall' = [pmCall EXCEPT
                  !.pc = "threw",
                  !.outcome = [NoOutcome EXCEPT !.kind = "error",
                                                !.text = "rpc error"]]
  /\ UNCHANGED <<supportedTokens, supportedTokensTimestamp, pmNow, pmCalls>>
  /\ UNCHANGED <<scorerVars, serviceVars>>
  /\ UNCHANGED frontVars

\* Date.now() advances
PaymasterTick ==
  /\ pmNow < MaxPaymasterTime
  /\ pmNow' = pmNow + 1
  /\ UNCHANGED <<supportedTokens, supportedTokensTimestamp, pmCall, pmCalls>>
  /\ UNCHANGED <<scorerVars, serviceVars>>
  /\ UNCHANGED frontVars

PaymasterNext ==
  \/ CallGetSupportedTokens
  \/ CallIsTokenSupported
  \/ CallFilterSupportedTokens
  \/ SupportedTokensReturns
  \/ SupportedTokensThrows
  \/ CallGetPaymasterData
  \/ SponsorReturns
  \/ SponsorThrows
  \/ PaymasterTick

SpecPaymaster == SpecPaymasterInit /\ [][PaymasterNext]_vars

-----------------------------------------------------------------------------
(* useUserOp: executeTransfer and executeBatch calls, one after the other *)

\* the backend is not used
BackendIdle ==
  /\ op = "frontend"
  /\ tokens = NoTokens
  /\ priceData = NoData
  /\ slippageData = NoData
  /\ usdArg = 0
  /\ result = NoResult
  /\ pc = "idle"
  /\ ServiceConstructed
  /\ PaymasterConstructed

\* the arguments of the calls: -1 stands for a call without paymentType,
\* which takes the branch of a negative one
TransferAmounts == {"3", "1,5"}
PaymentTypeArguments == {-1, 0, 1, 2}
PaymentTokenArguments == {Null, "0xaa"}

SpecUserOpInit ==
  /\ BackendIdle
  /\ FrontendMounted

\* the calls do not overlap
CanStartUserOp ==
  /\ ~UserOpInFlight(userOpCall)
  /\ frontSteps < MaxUserOpCalls

\* executeTransfer(params)
CallExecuteTransfer ==
  /\ CanStartUserOp
  /\ frontSteps' = frontSteps + 1
  /\ \E amount \in TransferAmounts :
     \E paymentType \in PaymentTypeArguments :
     \E paymentToken \in PaymentTokenArguments :
       BeginUserOp("executeTransfer", amount, paymentType, paymentToken)
  /\ UNCHANGED <<page, modal, tokenState, tokenCalls, wallet, home>>
  /\ UNCHANGED backendVars

\* executeBatch(params)
CallExecuteBatch ==
  /\ CanStartUserOp
  /\ frontSteps' = frontSteps + 1
  /\ \E paymentType \in PaymentTypeArguments :
     \E paymentToken \in PaymentTokenArguments :
       BeginUserOp("executeBatch", "", paymentType, paymentToken)
  /\ UNCHANGED <<page, modal, tokenState, tokenCalls, wallet, home>>
  /\ UNCHANGED backendVars

\* the call in progress goes on from its await
UserOpStep ==
  \/ UserOpInitClientReturns
  \/ UserOpInitClientThrows
  \/ UserOpSendReturns
  \/ UserOpSendThrows
  \/ UserOpWaitReturns
  \/ UserOpWaitReturnsNull
  \/ UserOpWaitThrows

UserOpProceeds ==
  /\ UserOpStep
  /\ UNCHANGED <<page, modal, tokenState, tokenCalls, wallet, home,
                 frontSteps>>
  /\ UNCHANGED backendVars

UserOpNext ==
  \/ CallExecuteTransfer
  \/ CallExecuteBatch
  \/ UserOpProceeds

SpecUserOp == SpecUserOpInit /\ [][UserOpNext]_vars

-----------------------------------------------------------------------------
(* PaymentPage with its TransactionModal and its useUserOp instance *)

SpecPaymentInit ==
  /\ BackendIdle
  /\ userOp = UserOpMounted
  /\ userOpCall = NoUserOpCall
  /\ \E token \in {Null, PageToken} :
     \E recommended \in {Null, RecommendedToken} :
       page = PageMounted(token, recommended)
  /\ modal = ModalMounted
  /\ tokenState = TokensMounted
  /\ tokenCalls = NoTokenCalls
  /\ wallet = [i \in WalletInstances |-> WalletMounted]
  /\ home = HomeMounted
  /\ frontSteps = 0

\* the form of the page can be used: the page is there and the modal does
\* not cover it
FormUsable == page.mounted /\ ~ModalShown(page.isModalOpen, page.token)

\* the effect that redirects to the home page when there is no token
RedirectHome ==
  /\ page.mounted
  /\ page.token = Null
  /\ page' = [page EXCEPT !.mounted = FALSE]
  /\ UNCHANGED <<userOp, userOpCall, modal>>
  /\ UNCHANGED <<tokenState, tokenCalls, wallet, home, frontSteps>>
  /\ UNCHANGED backendVars

\* the connectWallet that the effect of the page calls returns: the page
\* has a signer
PageWalletConnects ==
  /\ page.mounted
  /\ ~page.signer
  /\ page' = [page EXCEPT !.signer = TRUE]
  /\ UNCHANGED <<userOp, userOpCall, modal>>
  /\ UNCHANGED <<tokenState, tokenCalls, wallet, home, frontSteps>>
  /\ UNCHANGED backendVars

\* accountsChanged with no account: disconnectWallet sets the signer to null
PageWalletDisconnects ==
  /\ page.mounted
  /\ page.signer
  /\ page' = [page EXCEPT !.signer = FALSE]
  /\ UNCHANGED <<userOp, userOpCall, modal>>
  /\ UNCHANGED <<tokenState, tokenCalls, wallet, home, frontSteps>>
  /\ UNCHANGED backendVars

\* handleAmountChange
HandleAmountChange ==
  /\ FormUsable
  /\ \E amount \in AmountInputs :
       page' = [page EXCEPT !.amount = amount, !.alert = Null]
  /\ UNCHANGED <<userOp, userOpCall, modal>>
  /\ UNCHANGED <<tokenState, tokenCalls, wallet, home, frontSteps>>
  /\ UNCHANGED backendVars

\* handlePaymentTypeChange
HandlePaymentTypeChange ==
  /\ FormUsable
  /\ \E type \in PaymentTypes :
       page' = [page EXCEPT !.paymentType = type, !.alert = Null]
  /\ UNCHANGED <<userOp, userOpCall, modal>>
  /\ UNCHANGED <<tokenState, tokenCalls, wallet, home, frontSteps>>
  /\ UNCHANGED backendVars

\* handlePaymentTokenChange, from the selector shown for type 1 or 2: the
\* token of the page, or the recommended one when there is another
HandlePaymentTokenChange ==
  /\ FormUsable
  /\ page.paymentType \in {1, 2}
  /\ \E token \in {page.token, page.recommended} :
       /\ token = page.recommended => token # Null
       /\ page' = [page EXCEPT !.paymentToken = token, !.alert = Null]
  /\ UNCHANGED <<userOp, userOpCall, modal>>
  /\ UNCHANGED <<tokenState, tokenCalls, wallet, home, frontSteps>>
  /\ UNCHANGED backendVars

\* handleSubmitTransaction: an alert, or the modal is opened and its effect
\* on isOpen resets it
HandleSubmitTransaction ==
  /\ FormUsable
  /\ LET message == ValidateSubmission(page) IN
       IF message # ""
         THEN /\ page' = [page EXCEPT !.alert = message]
              /\ modal' = modal
         ELSE /\ page' = [page EXCEPT !.isModalOpen = TRUE, !.alert = Null]
              /\ modal' = ModalOpened(modal)
  /\ UNCHANGED <<userOp, userOpCall>>
  /\ UNCHANGED <<tokenState, tokenCalls, wallet, home, frontSteps>>
  /\ UNCHANGED backendVars

\* handleConfirm up to its await: onConfirm is executeTransaction, which
\* throws without a signer or a token and calls executeTransfer otherwise
HandleConfirm ==
  /\ page.mounted
  /\ ModalShown(page.isModalOpen, page.token)
  /\ ConfirmOffered(modal.status)
  /\ modal.confirms < MaxConfirms
  /\ modal' = ModalConfirming(modal)
  /\ IF MissingSignerOrToken(page)
       THEN /\ page' = [page EXCEPT !.confirm = "thrown"]
            /\ UNCHANGED <<userOp, userOpCall>>
       ELSE /\ page' = [page EXCEPT !.confirm = "executeTransfer"]
            /\ BeginUserOp("executeTransfer", page.amount, page.paymentType,
                           page.paymentToken)
  /\ UNCHANGED <<tokenState, tokenCalls, wallet, home, frontSteps>>
  /\ UNCHANGED backendVars

\* the error executeTransaction threw reaches the catch block of
\* handleConfirm
ConfirmCatchesMissing ==
  /\ page.confirm = "thrown"
  /\ page' = [page EXCEPT !.confirm = "none"]
  /\ modal' = ModalFailed(modal, MissingMessage)
  /\ UNCHANGED <<userOp, userOpCall>>
  /\ UNCHANGED <<tokenState, tokenCalls, wallet, home, frontSteps>>
  /\ UNCHANGED backendVars

\* executeTransfer goes on from its await; when it settles, handleConfirm
\* goes on with the hash or with the error
TransferProceeds ==
  /\ page.confirm = "executeTransfer"
  /\ UserOpStep
  /\ modal' = CASE userOpCall'.pc = "resolved" ->
                     ModalSucceeded(modal, userOpCall'.value)
                [] userOpCall'.pc = "rejected" ->
                     ModalFailed(modal, userOpCall'.value)
                [] OTHER -> modal
  /\ page' = IF UserOpInFlight(userOpCall')
               THEN page
               ELSE [page EXCEPT !.confirm = "none"]
  /\ UNCHANGED <<tokenState, tokenCalls, wallet, home, frontSteps>>
  /\ UNCHANGED backendVars

\* handleCloseModal, from a close button of the modal: the page is left
\* for the home page when the hook holds a transaction hash
HandleCloseModal ==
  /\ page.mounted
  /\ ModalShown(page.isModalOpen, page.token)
  /\ CloseOffered(modal.status)
  /\ page' = [page EXCEPT !.isModalOpen = FALSE,
                          !.mounted = userOp.txHash = Null]
  /\ UNCHANGED <<userOp, userOpCall, modal>>
  /\ UNCHANGED <<tokenState, tokenCalls, wallet, home, frontSteps>>
  /\ UNCHANGED backendVars

PaymentNext ==
  \/ RedirectHome
  \/ PageWalletConnects
  \/ PageWalletDisconnects
  \/ HandleAmountChange
  \/ HandlePaymentTypeChange
  \/ HandlePaymentTokenChange
  \/ HandleSubmitTransaction
  \/ HandleConfirm
  \/ ConfirmCatchesMissing
  \/ TransferProceeds
  \/ HandleCloseModal

SpecPayment == SpecPaymentInit /\ [][PaymentNext]_vars

-----------------------------------------------------------------------------
(* useTokens: getTokens and getRecommendation calls, on a wallet instance  *)
(* that is connected or is not                                             *)

SpecTokensInit ==
  /\ BackendIdle
  /\ userOp = UserOpMounted
  /\ userOpCall = NoUserOpCall
  /\ page = PageMounted(Null, Null)
  /\ modal = ModalMounted
  /\ tokenState = TokensMounted
  /\ tokenCalls = NoTokenCalls
  /\ \E instance \in {WalletMounted} \cup {WalletConnected(a) : a \in Accounts} :
       wallet = [i \in WalletInstances |->
                   IF i = "useTokens" THEN instance ELSE WalletMounted]
  /\ home = HomeMounted
  /\ frontSteps = 0

\* a caller has no call in progress, and may start one
CanStartTokenCall(caller) ==
  /\ tokenCalls[caller].pc \in {"idle", "done"}
  /\ frontSteps < MaxTokenCalls

\* getTokens()
CallGetTokens ==
  /\ \E caller \in {"HomePage", "effect"} :
       /\ CanStartTokenCall(caller)
       /\ tokenCalls' = [tokenCalls EXCEPT
                           ![caller] = CallAfterGetTokens(wallet["useTokens"])]
  /\ tokenState' = TokensAfterGetTokens(tokenState, wallet["useTokens"])
  /\ frontSteps' = frontSteps + 1
  /\ UNCHANGED <<userOp, userOpCall, page, modal, wallet, home>>
  /\ UNCHANGED backendVars

\* fetchWalletTokens returns the tokens of the wallet: setTokens, and
\* getSupportedTokens is awaited
WalletTokensReturn ==
  /\ \E caller \in {"HomePage", "effect"} :
       /\ tokenCalls[caller].pc = "fetchWalletTokens"
       /\ tokenCalls' = [tokenCalls EXCEPT ![caller].pc = "getSupportedTokens"]
  /\ \E walletTokens \in WalletTokenLists :
       tokenState' = [tokenState EXCEPT !.tokens = walletTokens]
  /\ UNCHANGED <<userOp, userOpCall, page, modal, wallet, home, frontSteps>>
  /\ UNCHANGED backendVars

\* fetchWalletTokens throws
WalletTokensThrow ==
  /\ \E caller \in {"HomePage", "effect"} :
     \E message \in ErrorMessages :
       /\ tokenCalls[caller].pc = "fetchWalletTokens"
       /\ tokenCalls' = [tokenCalls EXCEPT
                           ![caller].pc = "done",
                           ![caller].outcome =
                              MessageOr(message, "Error fetching tokens")]
       /\ tokenState' = [tokenState EXCEPT
                           !.error = MessageOr(message, "Error fetching tokens"),
                           !.isLoading = FALSE]
  /\ UNCHANGED <<userOp, userOpCall, page, modal, wallet, home, frontSteps>>
  /\ UNCHANGED backendVars

\* getSupportedTokens, which catches what it throws, has settled:
\* setIsLoading(false)
SupportedTokensSettle ==
  /\ \E caller \in {"HomePage", "effect"} :
       /\ tokenCalls[caller].pc = "getSupportedTokens"
       /\ tokenCalls' = [tokenCalls EXCEPT ![caller].pc = "done",
                                           ![caller].outcome = "loaded"]
  /\ tokenState' = [tokenState EXCEPT !.isLoading = FALSE]
  /\ UNCHANGED <<userOp, userOpCall, page, modal, wallet, home, frontSteps>>
  /\ UNCHANGED backendVars

\* getRecommendation() up to its await, on the token list of the render
\* that made the callback
CallGetRecommendation ==
  /\ CanStartTokenCall("getRecommendation")
  /\ frontSteps' = frontSteps + 1
  /\ IF tokenState.tokens = << >>
       THEN /\ tokenState' = [tokenState EXCEPT !.error = NoTokensMessage]
            /\ tokenCalls' = [tokenCalls EXCEPT
                                !["getRecommendation"] =
                                   [NoTokenCall EXCEPT
                                      !.pc = "done",
                                      !.outcome = NoTokensMessage]]
       ELSE /\ tokenState' = [tokenState EXCEPT !.isLoading = TRUE,
                                                !.error = Null]
            /\ tokenCalls' = [tokenCalls EXCEPT
                                !["getRecommendation"] =
                                   [NoTokenCall EXCEPT
                                      !.pc = "recommendToken",
                                      !.sent = tokenState.tokens]]
  /\ UNCHANGED <<userOp, userOpCall, page, modal, wallet, home>>
  /\ UNCHANGED backendVars

\* api.recommendToken returns a response with success and a recommendation:
\* setRecommendation, and the tokens of the call are marked
RecommendationReturns ==
  /\ tokenCalls["getRecommendation"].pc = "recommendToken"
  /\ \E response \in
        RecommendationResponses(tokenCalls["getRecommendation"].sent) :
       tokenState' =
         [tokenState EXCEPT
            !.recommendation = response.recommendation,
            !.tokens = MarkRecommended(
                         tokenCalls["getRecommendation"].sent, response),
            !.isLoading = FALSE]
  /\ tokenCalls' = [tokenCalls EXCEPT
                      !["getRecommendation"].pc = "done",
                      !["getRecommendation"].outcome = "recommended"]
  /\ UNCHANGED <<userOp, userOpCall, page, modal, wallet, home, frontSteps>>
  /\ UNCHANGED backendVars

\* api.recommendToken throws (the backend answers with an error status)
RecommendationThrows ==
  /\ tokenCalls["getRecommendation"].pc = "recommendToken"
  /\ \E message \in ErrorMessages :
       /\ tokenState' =
            [tokenState EXCEPT
               !.error = MessageOr(message,
                                   "Error getting token recommendation"),
               !.isLoading = FALSE]
       /\ tokenCalls' =
            [tokenCalls EXCEPT
               !["getRecommendation"].pc = "done",
               !["getRecommendation"].outcome =
                  MessageOr(message, "Error getting token recommendation")]
  /\ UNCHANGED <<userOp, userOpCall, page, modal, wallet, home, frontSteps>>
  /\ UNCHANGED backendVars

TokensNext ==
  \/ CallGetTokens
  \/ WalletTokensReturn
  \/ WalletTokensThrow
  \/ SupportedTokensSettle
  \/ CallGetRecommendation
  \/ RecommendationReturns
  \/ RecommendationThrows

SpecTokens == SpecTokensInit /\ [][TokensNext]_vars

-----------------------------------------------------------------------------
(* The home page: WalletConnect with its useWallet instance, HomePage, and *)
(* useTokens with the useWallet instance of its own                        *)

SpecHomeInit ==
  /\ BackendIdle
  /\ FrontendMounted

\* what the instance of WalletConnect and the instance of useTokens become
WalletsAfter(connectInstance, tokensInstance) ==
  [i \in WalletInstances |->
     IF i = "WalletConnect" THEN connectInstance ELSE tokensInstance]

\* the effects that follow a render with the wallet instances w: the
\* effect of WalletConnect calls onWalletConnected when its account is set
\* and has changed, and handleWalletConnected sets walletConnected; the
\* effect of HomePage calls getTokens when walletConnected is true and it or
\* getTokens has changed; the effect of useTokens calls getTokens when the
\* hook has an account or an AA wallet address and getTokens has changed
Notified(w) ==
  /\ w["WalletConnect"].account # Null
  /\ w["WalletConnect"].account # wallet["WalletConnect"].account

GetTokensChanged(w) ==
  \/ w["useTokens"].account # wallet["useTokens"].account
  \/ w["useTokens"].aaWalletAddress # wallet["useTokens"].aaWalletAddress
  \/ w["useTokens"].provider # wallet["useTokens"].provider

HomePageCallsGetTokens(w) ==
  \/ Notified(w) /\ ~home.walletConnected
  \/ (home.walletConnected \/ Notified(w)) /\ GetTokensChanged(w)

EffectCallsGetTokens(w) ==
  /\ GetTokensChanged(w)
  /\ ~NoWalletAddress(w["useTokens"])

Effects(w) ==
  /\ wallet' = w
  /\ home' = [home EXCEPT !.walletConnected = home.walletConnected \/ Notified(w)]
  /\ tokenState' =
       IF HomePageCallsGetTokens(w) \/ EffectCallsGetTokens(w)
         THEN TokensAfterGetTokens(tokenState, w["useTokens"])
         ELSE tokenState
  /\ tokenCalls' =
       [c \in TokenCallers |->
          IF \/ c = "HomePage" /\ HomePageCallsGetTokens(w)
             \/ c = "effect" /\ EffectCallsGetTokens(w)
            THEN CallAfterGetTokens(w["useTokens"])
            ELSE tokenCalls[c]]

\* the connect button of WalletConnect, rendered when a connection has
\* failed or when there is no account: connectWallet up to
\* eth_requestAccounts
HomeConnectWallet ==
  /\ wallet["WalletConnect"].pc = "idle"
  /\ \/ wallet["WalletConnect"].connectionError # Null
     \/ wallet["WalletConnect"].account = Null
  /\ Effects(WalletsAfter(
               [wallet["WalletConnect"] EXCEPT !.isConnecting = TRUE,
                                               !.connectionError = Null,
                                               !.pc = "eth_requestAccounts"],
               wallet["useTokens"]))
  /\ UNCHANGED <<userOp, userOpCall, page, modal, frontSteps>>
  /\ UNCHANGED backendVars

\* eth_requestAccounts returns: setAccount, setProvider, setSigner, and
\* getNetwork is awaited
HomeAccountsReturn ==
  /\ wallet["WalletConnect"].pc = "eth_requestAccounts"
  /\ \E account \in Accounts :
       Effects(WalletsAfter(
                 [wallet["WalletConnect"] EXCEPT !.account = account,
                                                 !.provider = TRUE,
                                                 !.signer = TRUE,
                                                 !.pc = "getNetwork"],
                 wallet["useTokens"]))
  /\ UNCHANGED <<userOp, userOpCall, page, modal, frontSteps>>
  /\ UNCHANGED backendVars

\* getNetwork returns: setChainId, and initClient is awaited
HomeNetworkReturns ==
  /\ wallet["WalletConnect"].pc = "getNetwork"
  /\ Effects(WalletsAfter(
               [wallet["WalletConnect"] EXCEPT !.pc = "initClient"],
               wallet["useTokens"]))
  /\ UNCHANGED <<userOp, userOpCall, page, modal, frontSteps>>
  /\ UNCHANGED backendVars

\* initClient returns: the useUserOp instance of WalletConnect's useWallet
\* has its AA wallet address, setIsConnecting(false)
HomeInitClientReturns ==
  /\ wallet["WalletConnect"].pc = "initClient"
  /\ Effects(WalletsAfter(
               [wallet["WalletConnect"] EXCEPT !.aaWalletAddress = "0xAAwallet",
                                               !.isConnecting = FALSE,
                                               !.pc = "idle"],
               wallet["useTokens"]))
  /\ UNCHANGED <<userOp, userOpCall, page, modal, frontSteps>>
  /\ UNCHANGED backendVars

\* an await of connectWallet throws: the catch block
HomeConnectThrows ==
  /\ wallet["WalletConnect"].pc \in
       {"eth_requestAccounts", "getNetwork", "initClient"}
  /\ \E message \in ErrorMessages :
       Effects(WalletsAfter(
                 [wallet["WalletConnect"] EXCEPT
                    !.connectionError =
                       MessageOr(message, "Error connecting to wallet"),
                    !.isConnecting = FALSE,
                    !.pc = "idle"],
                 wallet["useTokens"]))
  /\ UNCHANGED <<userOp, userOpCall, page, modal, frontSteps>>
  /\ UNCHANGED backendVars

\* the disconnect button of WalletConnect, rendered when there is an
\* account and no connection has failed: disconnectWallet
HomeDisconnectWallet ==
  /\ wallet["WalletConnect"].pc = "idle"
  /\ wallet["WalletConnect"].connectionError = Null
  /\ wallet["WalletConnect"].account # Null
  /\ Effects(WalletsAfter(
               [wallet["WalletConnect"] EXCEPT !.account = Null,
                                               !.provider = FALSE,
                                               !.signer = FALSE],
               wallet["useTokens"]))
  /\ UNCHANGED <<userOp, userOpCall, page, modal, frontSteps>>
  /\ UNCHANGED backendVars

\* the handler of accountsChanged of an instance, for the account MetaMask
\* names (null when it names none)
AfterAccountsChanged(instance, account) ==
  IF account = Null
    THEN [instance EXCEPT !.account = Null, !.provider = FALSE,
                          !.signer = FALSE]
    ELSE [instance EXCEPT !.account = account]

\* MetaMask emits accountsChanged: the listener of every instance runs
AccountsChanged ==
  /\ \E account \in Accounts \cup {Null} :
       Effects([i \in WalletInstances |->
                  AfterAccountsChanged(wallet[i], account)])
  /\ UNCHANGED <<userOp, userOpCall, page, modal, frontSteps>>
  /\ UNCHANGED backendVars

HomeNext ==
  \/ HomeConnectWallet
  \/ HomeAccountsReturn
  \/ HomeNetworkReturns
  \/ HomeInitClientReturns
  \/ HomeConnectThrows
  \/ HomeDisconnectWallet
  \/ AccountsChanged

SpecHome == SpecHomeInit /\ [][HomeNext]_vars

-----------------------------------------------------------------------------
(* Vocabulary of the properties of the price service *)

\* the step in which _fetchPriceData of call c returns
PriceFetchReturns(c) ==
  calls[c].pc = "fetchPrice" /\ calls'[c].pc = "fetchVolatility"

\* the step in which _fetchVolatilityData of call c returns
VolatilityFetchReturns(c) ==
  calls[c].pc = "fetchVolatility" /\ calls'[c].pc = "returned"

\* the step in which a fetch of call c throws
FetchThrows(c) ==
  calls[c].pc \in {"fetchPrice", "fetchVolatility"} /\ calls'[c].pc = "catch"

\* the identifiers with an entry in a cache
PriceEntriesOf(cache) == {a \in ServiceAddresses \cup {ToLowerCase(x) : x \in ServiceAddresses} :
                           a \in DOMAIN cache /\ PriceTimeKey(a) \in DOMAIN cache}
VolatilityEntriesOf(cache) == {a \in ServiceAddresses \cup {ToLowerCase(x) : x \in ServiceAddresses} :
                           a \in DOMAIN cache /\ VolatilityTimeKey(a) \in DOMAIN cache}

\* the other call
Other(c) == CHOOSE d \in Callers : d # c

-----------------------------------------------------------------------------
(* C11: a price or volatility entry fetched at time T is served from the   *)
(* cache, with no fetch and with its value and timestamp unchanged, by     *)
(* every fetch at a time t with t - T <= TTL; a fetch at a time t with     *)
(* t - T > TTL that returns fetches the identifier again and overwrites    *)
(* the entry with the timestamp t.                                         *)
C11_FreshServedExpiredRefetched ==
  [][\A c \in Callers :
       /\ PriceFetchReturns(c) =>
            \A a \in Range(calls[c].addresses) \cap PriceEntriesOf(priceCache) :
              IF now - priceCache[PriceTimeKey(a)] <= CacheTTL
                THEN /\ a \notin calls'[c].fetchedPrices
                     /\ priceCache'[a] = priceCache[a]
                     /\ priceCache'[PriceTimeKey(a)] = priceCache[PriceTimeKey(a)]
                     /\ calls'[c].prices[a] = priceCache[a]
                ELSE /\ a \in calls'[c].fetchedPrices
                     /\ priceCache'[PriceTimeKey(a)] = now
                     /\ priceCache'[PriceTimeKey(a)] > priceCache[PriceTimeKey(a)]
                     /\ priceCache'[a] = calls'[c].prices[a]
       /\ VolatilityFetchReturns(c) =>
            \A a \in Range(calls[c].addresses)
                       \cap VolatilityEntriesOf(volatilityCache) :
              IF now - volatilityCache[VolatilityTimeKey(a)] <= CacheTTL
                THEN /\ a \notin calls'[c].fetchedVolatilities
                     /\ volatilityCache'[a] = volatilityCache[a]
                     /\ volatilityCache'[VolatilityTimeKey(a)] =
                          volatilityCache[VolatilityTimeKey(a)]
                     /\ calls'[c].volatilities[a] = volatilityCache[a]
                ELSE /\ a \in calls'[c].fetchedVolatilities
                     /\ volatilityCache'[VolatilityTimeKey(a)] = now
                     /\ volatilityCache'[VolatilityTimeKey(a)] >
                          volatilityCache[VolatilityTimeKey(a)]
                     /\ volatilityCache'[a] = calls'[c].volatilities[a]
    ]_vars

\* one call fetched the price of an identifier, and the other call, at a
\* later time, found the entry expired and has just fetched it again
C11_Witness ==
  \E c \in Callers : \E a \in Range(calls[c].addresses) :
    /\ calls[c].pc = "fetchVolatility"
    /\ a \in calls[c].fetchedPrices
    /\ calls[Other(c)].pc = "returned"
    /\ a \in calls[Other(c)].fetchedPrices
    /\ a \in calls[Other(c)].fetchedVolatilities
    /\ priceCache[PriceTimeKey(a)] = now
    /\ now - volatilityCache[VolatilityTimeKey(a)] > CacheTTL

-----------------------------------------------------------------------------
(* C12: when the price fetch or the volatility fetch of a getPriceData     *)
(* call throws, the call goes to its catch block and returns from it: the  *)
(* result holds, for every requested identifier with a cached price or     *)
(* volatility, the cached values however old they are (0 for the kind that *)
(* is not cached), and holds no other identifier.                          *)
C12_FallbackToCache ==
  [][\A c \in Callers :
       /\ calls[c].pc = "catch" =>
            /\ calls[c].threw \in {"price", "volatility"}
            /\ calls'[c] # calls[c] => calls'[c].pc = "returned"
       /\ calls[c].pc = "catch" /\ calls'[c].pc = "returned" =>
            LET out == calls'[c].out IN
            /\ DOMAIN out \subseteq Range(calls[c].addresses)
            /\ \A a \in Range(calls[c].addresses) :
                 IF a \in DOMAIN priceCache \/ a \in DOMAIN volatilityCache
                   THEN /\ a \in DOMAIN out
                        /\ out[a].price =
                             IF a \in DOMAIN priceCache THEN priceCache[a] ELSE 0
                        /\ out[a].volatility24h =
                             IF a \in DOMAIN volatilityCache
                               THEN volatilityCache[a] ELSE 0
                   ELSE a \notin DOMAIN out
    ]_vars

\* a call whose price fetch threw has returned an expired price for one
\* identifier and left out another, which has no entry
C12_Witness ==
  \E c \in Callers : \E a, b \in Range(calls[c].addresses) :
    /\ calls[c].pc = "returned"
    /\ calls[c].threw = "price"
    /\ a \in DOMAIN calls[c].out
    /\ a \in PriceEntriesOf(priceCache)
    /\ now - priceCache[PriceTimeKey(a)] > CacheTTL
    /\ calls[c].out[a].price = priceCache[a]
    /\ b \notin DOMAIN calls[c].out
    /\ b \notin DOMAIN priceCache

-----------------------------------------------------------------------------
(* C13: a fetch of a batch fetches and writes exactly the identifiers of   *)
(* the batch that have no entry or an expired one. Every other key of the  *)
(* cache, the fresh identifiers of the batch among them, keeps its value   *)
(* and its timestamp, and the call returns the cached value for a fresh    *)
(* identifier.                                                             *)
C13_OnlyMissingOrExpiredFetched ==
  [][\A c \in Callers :
       /\ PriceFetchReturns(c) =>
            LET batch   == Range(calls[c].addresses)
                stale   == {a \in batch :
                              \/ a \notin PriceEntriesOf(priceCache)
                              \/ now - priceCache[PriceTimeKey(a)] > CacheTTL}
                written == stale \cup {PriceTimeKey(a) : a \in stale}
            IN  /\ calls'[c].fetchedPrices = stale
                /\ DOMAIN priceCache' = DOMAIN priceCache \cup written
                /\ \A k \in DOMAIN priceCache \ written :
                     priceCache'[k] = priceCache[k]
                /\ \A a \in batch \ stale :
                     calls'[c].prices[a] = priceCache[a]
       /\ VolatilityFetchReturns(c) =>
            LET batch   == Range(calls[c].addresses)
                stale   == {a \in batch :
                              \/ a \notin VolatilityEntriesOf(volatilityCache)
                              \/ now - volatilityCache[VolatilityTimeKey(a)]
                                   > CacheTTL}
                written == stale \cup {VolatilityTimeKey(a) : a \in stale}
            IN  /\ calls'[c].fetchedVolatilities = stale
                /\ DOMAIN volatilityCache' = DOMAIN volatilityCache \cup written
                /\ \A k \in DOMAIN volatilityCache \ written :
                     volatilityCache'[k] = volatilityCache[k]
                /\ \A a \in batch \ stale :
                     /\ calls'[c].volatilities[a] = volatilityCache[a]
                     /\ calls'[c].out[a].volatility24h = volatilityCache[a]
                /\ \A a \in batch \ calls[c].fetchedPrices :
                     calls'[c].out[a].price = calls[c].prices[a]
    ]_vars

\* a call has returned a batch of two: one identifier it fetched, the other
\* it took from the fresh entries that an earlier fetch left
C13_Witness ==
  \E c \in Callers : \E a, b \in Range(calls[c].addresses) :
    /\ calls[c].pc = "returned"
    /\ calls[c].threw = ""
    /\ a \in calls[c].fetchedPrices \cap calls[c].fetchedVolatilities
    /\ b \notin calls[c].fetchedPrices \cup calls[c].fetchedVolatilities
    /\ priceCache[PriceTimeKey(b)] < priceCache[PriceTimeKey(a)]
    /\ volatilityCache[VolatilityTimeKey(b)] <
         volatilityCache[VolatilityTimeKey(a)]
    /\ calls[c].out[b].price = priceCache[b]
    /\ calls[c].out[b].volatility24h = volatilityCache[b]

-----------------------------------------------------------------------------
(* C14: no step removes a key from the price cache or from the volatility  *)
(* cache, so an identifier that has an entry has one in every later state; *)
(* and every value a fetch that returns hands to getPriceData is the value *)
(* of an entry that is not expired at that moment. An expired value is     *)
(* returned by the catch block only.                                       *)
C14_NeverEvictedStaleOnlyOnFailure ==
  [][/\ DOMAIN priceCache \subseteq DOMAIN priceCache'
     /\ DOMAIN volatilityCache \subseteq DOMAIN volatilityCache'
     /\ \A c \in Callers :
          /\ PriceFetchReturns(c) =>
               \A a \in Range(calls[c].addresses) :
                 /\ a \in PriceEntriesOf(priceCache')
                 /\ calls'[c].prices[a] = priceCache'[a]
                 /\ now - priceCache'[PriceTimeKey(a)] <= CacheTTL
          /\ VolatilityFetchReturns(c) =>
               \A a \in Range(calls[c].addresses) :
                 /\ a \in VolatilityEntriesOf(volatilityCache')
                 /\ calls'[c].volatilities[a] = volatilityCache'[a]
                 /\ now - volatilityCache'[VolatilityTimeKey(a)] <= CacheTTL
                 /\ calls'[c].out[a].volatility24h = volatilityCache'[a]
          /\ calls'[c].pc = "returned" /\ calls[c].pc # "returned" =>
               \A a \in DOMAIN calls'[c].out :
                 (/\ a \in VolatilityEntriesOf(volatilityCache')
                  /\ now - volatilityCache'[VolatilityTimeKey(a)] > CacheTTL)
                 => calls[c].pc = "catch"
    ]_vars

\* an expired entry is still in both caches after a later call for another
\* identifier has fetched and returned
C14_Witness ==
  \E c \in Callers : \E a \in PriceEntriesOf(priceCache) :
    /\ now - priceCache[PriceTimeKey(a)] > CacheTTL
    /\ a \in VolatilityEntriesOf(volatilityCache)
    /\ now - volatilityCache[VolatilityTimeKey(a)] > CacheTTL
    /\ a \in calls[Other(c)].fetchedPrices
    /\ a \notin Range(calls[c].addresses)
    /\ calls[c].pc = "returned"
    /\ calls[c].threw = ""
    /\ calls[c].fetchedPrices # {}
    /\ \A b \in calls[c].fetchedPrices : priceCache[PriceTimeKey(b)] = now

-----------------------------------------------------------------------------
(* C15: in every state reached by interleaved getPriceData calls, a cache  *)
(* holds a value for an identifier exactly when it holds its fetch time,   *)
(* and the two are the value and the time of the last write for that       *)
(* identifier; a call is never in any position but those of its code, and  *)
(* one that returned from the try block has every requested identifier in  *)
(* its result.                                                             *)
C15_LastWriterWins ==
  /\ \A a \in {ToLowerCase(x) : x \in ServiceAddresses} :
       /\ a \in DOMAIN priceCache <=> PriceTimeKey(a) \in DOMAIN priceCache
       /\ a \in DOMAIN priceCache <=> a \in DOMAIN lastWrite.price
       /\ a \in DOMAIN lastWrite.price =>
            /\ priceCache[a] = lastWrite.price[a].value
            /\ priceCache[PriceTimeKey(a)] = lastWrite.price[a].at
       /\ a \in DOMAIN volatilityCache
            <=> VolatilityTimeKey(a) \in DOMAIN volatilityCache
       /\ a \in DOMAIN volatilityCache <=> a \in DOMAIN lastWrite.volatility
       /\ a \in DOMAIN lastWrite.volatility =>
            /\ volatilityCache[a] = lastWrite.volatility[a].value
            /\ volatilityCache[VolatilityTimeKey(a)] =
                 lastWrite.volatility[a].at
  /\ \A c \in Callers :
       /\ calls[c].pc \in {"idle", "fetchPrice", "fetchVolatility", "catch",
                            "returned"}
       /\ calls[c].pc = "catch" => calls[c].threw # ""
       /\ calls[c].pc = "returned" /\ calls[c].threw = "" =>
            DOMAIN calls[c].out = Range(calls[c].addresses)

\* two calls in flight for the same identifier have each fetched its price,
\* with different values, and the cache holds the value of the second
C15_Witness ==
  \E c \in Callers : \E a \in Range(calls[c].addresses) :
    /\ calls[c].pc = "fetchVolatility"
    /\ calls[Other(c)].pc = "fetchVolatility"
    /\ a \in calls[c].fetchedPrices \cap calls[Other(c)].fetchedPrices
    /\ calls[c].prices[a] # calls[Other(c)].prices[a]
    /\ priceCache[a] = calls[c].prices[a]
    /\ priceCache[PriceTimeKey(a)] = now

-----------------------------------------------------------------------------
-----------------------------------------------------------------------------
(* What C17 has in common with its amendment: which prices a fetch fetches *)
(* is a matter of the price cache and the clock only, and which            *)
(* volatilities of the volatility cache and the clock only; a price fetch  *)
(* leaves the volatility cache as it was and a volatility fetch the price  *)
(* cache.                                                                  *)
IndependentCaches ==
  \A c \in Callers :
    /\ PriceFetchReturns(c) =>
         /\ volatilityCache' = volatilityCache
         /\ calls'[c].fetchedPrices =
              {a \in Range(calls[c].addresses) :
                 NeedsPriceFetch(priceCache, a, now)}
    /\ VolatilityFetchReturns(c) =>
         /\ priceCache' = priceCache
         /\ calls'[c].fetchedVolatilities =
              {a \in Range(calls[c].addresses) :
                 NeedsVolatilityFetch(volatilityCache, a, now)}

(* C17 as stated: the caches are independent, and when the price fetch of  *)
(* a call throws, the volatility entries of the identifiers of the call    *)
(* are refreshed all the same: by the time the call returns they are       *)
(* there and not expired.                                                  *)
C17_PriceFailureLeavesVolatilityRefreshed ==
  [][/\ IndependentCaches
     /\ \A c \in Callers :
          calls[c].threw = "price" /\ calls'[c].pc = "returned"
            /\ calls[c].pc # "returned" =>
              \A a \in Range(calls[c].addresses) :
                /\ a \in VolatilityEntriesOf(volatilityCache')
                /\ now - volatilityCache'[VolatilityTimeKey(a)] <= CacheTTL
    ]_vars

(* C17, amended: the caches are independent, but the two fetches are in    *)
(* one try block, the price fetch first: when it throws, the call goes to  *)
(* the catch block without calling the volatility fetch, and no volatility *)
(* entry is written by that call.                                          *)
C17_IndependentCachesOneTryBlock ==
  [][/\ IndependentCaches
     /\ \A c \in Callers :
          /\ calls[c].pc = "fetchPrice" /\ calls'[c].threw = "price" =>
               calls'[c].pc = "catch" /\ volatilityCache' = volatilityCache
          /\ calls[c].threw = "price" =>
               /\ calls[c].pc \in {"catch", "returned"}
               /\ calls[c].fetchedVolatilities = {}
               /\ calls[c].pc = "catch" /\ calls'[c] # calls[c] =>
                    /\ calls'[c].pc = "returned"
                    /\ calls'[c].fetchedVolatilities = {}
                    /\ volatilityCache' = volatilityCache
    ]_vars

\* a call whose price fetch threw has returned; the volatility entry of one
\* of its identifiers was expired and still is, and the call returned it
C17_Witness ==
  \E c \in Callers : \E a \in Range(calls[c].addresses) :
    /\ calls[c].pc = "returned"
    /\ calls[c].threw = "price"
    /\ calls[c].fetchedVolatilities = {}
    /\ a \in VolatilityEntriesOf(volatilityCache)
    /\ volatilityCache[VolatilityTimeKey(a)] = lastWrite.volatility[a].at
    /\ now - volatilityCache[VolatilityTimeKey(a)] > CacheTTL
    /\ calls[c].out[a].volatility24h = volatilityCache[a]

-----------------------------------------------------------------------------
(* C18: scoreTokens returns a result in which an asset with positive       *)
(* balance and positive price has volatilityScore 0 when the market data   *)
(* give no volatility for it (the default 100) and slippageScore 0 when    *)
(* they give no slippage (the default 10); with both missing its score is  *)
(* 0.4 times its balance sub-score.                                        *)
C18_MissingDataScoredWithDefaults ==
  ScoreDone =>
    \A i \in InputIndexes :
      LET t == tokens.list[i] IN
      FullyScored(t) =>
        /\ EntriesOf(t) # {}
        /\ \A j \in EntriesOf(t) :
             LET s == result.allScores[j] IN
             /\ GivenVolatility(t) = Undefined =>
                  /\ s.volatilityScore = 0
                  /\ Volatility(priceData, ToLowerCase(t.address)) =
                       DefaultVolatility * VolUnitsPerPercent
             /\ ~HasSlippageEntry(t) =>
                  /\ s.slippageScore = 0
                  /\ Slippage(slippageData, ToLowerCase(t.address)) =
                       DefaultSlippage * SlipUnitsPerPercent
             /\ GivenVolatility(t) = Undefined /\ ~HasSlippageEntry(t) =>
                  s.score = WeightBalance * NormalizeBalance(GivenUsd(t))

\* an asset worth $3 with neither volatility nor slippage given has been
\* scored, above 0
C18_Witness ==
  /\ ScoreDone
  /\ \E i \in InputIndexes :
       LET t == tokens.list[i] IN
       /\ FullyScored(t)
       /\ GivenUsd(t) = 3 * CentsPerUsd
       /\ GivenVolatility(t) = Undefined
       /\ ~HasSlippageEntry(t)
       /\ \E j \in EntriesOf(t) :
            /\ result.allScores[j].score > 0
            /\ result.allScores[j].score < WeightBalance * Scale

-----------------------------------------------------------------------------
(* The two assets of the scenario, and the call that scores just the two   *)
(* with the market data of the scenario                                    *)
AssetA == [address |-> DAI, balance |-> "1000"]
AssetB == [address |-> AAVE, balance |-> "50"]

ScenarioCall ==
  /\ op = "scoreTokens"
  /\ ~tokens.null
  /\ tokens.list \in {<<AssetA, AssetB>>, <<AssetB, AssetA>>}
  /\ priceData[DAI] = [price |-> CentsPerUsd, volatility24h |-> 20]
  /\ priceData[AAVE] = [price |-> 8520, volatility24h |-> 930]
  /\ slippageData[DAI].slippage = 100
  /\ slippageData[AAVE].slippage = 1800

(* C19: Asset A (balance 1000, price 1.00, volatility 0.2%, slippage 0.1%) *)
(* and Asset B (balance 50, price 85.20, volatility 9.3%, slippage 1.8%),  *)
(* scored in one call in either order: both scores are positive, the score *)
(* of A is the higher and A is the recommendedToken; the reasons of A are  *)
(* a high balance, a very stable price and a minimal slippage, and B has   *)
(* its balance reason only.                                                *)
C19_ScenarioRanksAOverB ==
  ScenarioCall /\ pc = "done" =>
    /\ ~result.null
    /\ Len(result.allScores) = 2
    /\ LET a == result.allScores[1]
           b == result.allScores[2]
       IN  /\ result.recommendedToken = a
           /\ a.address = DAI /\ a.balance = "1000"
           /\ b.address = AAVE /\ b.balance = "50"
           /\ b.score > 0
           /\ a.score > b.score
           /\ a.score = 99640
           /\ a.reasons = << "High balance ($1000.00) provides flexibility",
                             "Very stable price (0.20% 24h change)",
                             "Minimal slippage (0.10%)" >>
           /\ b.reasons = << "High balance ($4260.00) provides flexibility" >>

\* the two assets have been scored, B given before A
C19_Witness ==
  /\ ScenarioCall
  /\ pc = "done"
  /\ tokens.list = <<AssetB, AssetA>>
  /\ ~result.null
  /\ result.recommendedToken.address = DAI

-----------------------------------------------------------------------------
(* C20: the reasons of an asset with positive USD balance and positive     *)
(* price start with one balance reason, "High" when usdBalance >= 100,     *)
(* "Moderate" when 20 <= usdBalance < 100 and "Low" otherwise; there are   *)
(* at most two more, none of them a balance reason: a volatility reason    *)
(* and after it a slippage reason, or one of the two.                      *)
C20_BalanceReasonFirst ==
  ScoreDone =>
    \A i \in InputIndexes :
      LET t == tokens.list[i] IN
      FullyScored(t) =>
        \A j \in EntriesOf(t) :
          LET r    == result.allScores[j].reasons
              usd  == ToFixed2(GivenUsd(t), CentsPerUsd)
              vol  == ToFixed2(Volatility(priceData, ToLowerCase(t.address)),
                               VolUnitsPerPercent)
              slip == ToFixed2(Slippage(slippageData, ToLowerCase(t.address)),
                               SlipUnitsPerPercent)
              high     == "High balance ($" \o usd \o ") provides flexibility"
              moderate == "Moderate balance ($" \o usd \o ") is sufficient"
              low      == "Low balance ($" \o usd \o ") may limit options"
              volatilityReasons ==
                {"Very stable price (" \o vol \o "% 24h change)",
                 "Stable price (" \o vol \o "% 24h change)",
                 "High price volatility (" \o vol \o "% 24h change)"}
              slippageReasons ==
                {"Minimal slippage (" \o slip \o "%)",
                 "High slippage (" \o slip \o "%)"}
          IN  /\ Len(r) \in 1..3
              /\ r[1] = IF GivenUsd(t) >= HighBalance * CentsPerUsd THEN high
                        ELSE IF GivenUsd(t) >= ModerateBalance * CentsPerUsd
                          THEN moderate
                        ELSE low
              /\ Len(r) = 2 => r[2] \in volatilityReasons \cup slippageReasons
              /\ Len(r) = 3 => /\ r[2] \in volatilityReasons
                               /\ r[3] \in slippageReasons

\* an asset worth exactly $20 has the moderate balance reason, then a
\* volatility reason and a slippage reason; one worth exactly $100 has the
\* high balance reason
C20_Witness ==
  /\ ScoreDone
  /\ \E i, k \in InputIndexes :
       /\ FullyScored(tokens.list[i])
       /\ GivenUsd(tokens.list[i]) = ModerateBalance * CentsPerUsd
       /\ \E j \in EntriesOf(tokens.list[i]) :
            /\ Len(result.allScores[j].reasons) = 3
            /\ result.allScores[j].reasons[1] =
                 "Moderate balance ($20.00) is sufficient"
       /\ FullyScored(tokens.list[k])
       /\ GivenUsd(tokens.list[k]) = HighBalance * CentsPerUsd
       /\ \E j \in EntriesOf(tokens.list[k]) :
            result.allScores[j].reasons[1] =
              "High balance ($100.00) provides flexibility"

-----------------------------------------------------------------------------
(* C21: for an asset with positive USD balance and positive price, with a  *)
(* volatility v and a slippage s supplied in the market data (0 included), *)
(* the reasons after the balance reason are: "Very stable" when v < 1,     *)
(* "Stable" when 1 <= v < 5, "High price volatility" when v > 20, none for *)
(* 5 <= v <= 20; then "Minimal" when s < 0.5, "High" when s > 3, none for  *)
(* 0.5 <= s <= 3.                                                          *)
C21_ReasonsFollowSuppliedValues ==
  ScoreDone =>
    \A i \in InputIndexes :
      LET t == tokens.list[i] IN
      (FullyScored(t) /\ GivenVolatility(t) # Undefined /\ HasSlippageEntry(t))
      =>
        \A j \in EntriesOf(t) :
          LET r    == result.allScores[j].reasons
              v    == GivenVolatility(t)
              s    == GivenSlippage(t)
              vol  == ToFixed2(v, VolUnitsPerPercent)
              slip == ToFixed2(s, SlipUnitsPerPercent)
              volatilityReasons ==
                IF v < VeryStableBelow * VolUnitsPerPercent
                  THEN << "Very stable price (" \o vol \o "% 24h change)" >>
                ELSE IF v < StableBelow * VolUnitsPerPercent
                  THEN << "Stable price (" \o vol \o "% 24h change)" >>
                ELSE IF v > HighVolatilityAbove * VolUnitsPerPercent
                  THEN << "High price volatility (" \o vol \o "% 24h change)" >>
                ELSE << >>
              slippageReasons ==
                IF 10 * s < MinimalSlippageBelowTenths * SlipUnitsPerPercent
                  THEN << "Minimal slippage (" \o slip \o "%)" >>
                ELSE IF s > HighSlippageAbove * SlipUnitsPerPercent
                  THEN << "High slippage (" \o slip \o "%)" >>
                ELSE << >>
          IN  /\ Len(r) >= 1
              /\ SubSeq(r, 2, Len(r)) = volatilityReasons \o slippageReasons

-----------------------------------------------------------------------------
(* Vocabulary of the properties of the paymaster service *)

\* a call of the paymaster service has returned
PaymasterReturned(name) == pmCall.op = name /\ pmCall.pc = "returned"

\* the k-th smallest element of a set of numbers
Nth(set, k) == CHOOSE i \in set : Cardinality({j \in set : j <= i}) = k

-----------------------------------------------------------------------------
(* C22: filterSupportedTokens returns the user's tokens for whose address  *)
(* isTokenSupported is true against the same supported list, each as often *)
(* as it is given and in the given order, addresses being compared in      *)
(* lower case; filtering the result again against the same list gives the  *)
(* result.                                                                 *)
C22_FilterKeepsExactlySupported ==
  PaymasterReturned("filterSupportedTokens") =>
    LET given == pmCall.userTokens
        out   == pmCall.outcome.list
        keep  == {i \in 1..Len(given) :
                    IsTokenSupported(pmCall.supported, given[i].address)}
    IN  /\ Len(out) = Cardinality(keep)
        /\ \A k \in 1..Len(out) : out[k] = given[Nth(keep, k)]
        /\ \A i \in 1..Len(given) :
             (\E k \in 1..Len(out) : out[k] = given[i]) <=>
               \E j \in 1..Len(pmCall.supported) :
                 ToLowerCase(pmCall.supported[j].address) =
                   ToLowerCase(given[i].address)
        /\ FilterSupportedTokens(pmCall.supported, out) = out

\* of the user's tokens 0xcc and 0xBb the filter has returned 0xBb, the
\* supported list giving it as 0xbb
C22_Witness ==
  /\ PaymasterReturned("filterSupportedTokens")
  /\ pmCall.userTokens = << [address |-> "0xcc"], [address |-> "0xBb"] >>
  /\ pmCall.supported = << [address |-> "0xAA"], [address |-> "0xbb"] >>
  /\ pmCall.outcome.list = << [address |-> "0xBb"] >>

-----------------------------------------------------------------------------
(* C23: a call of scoreTokens leaves the token list, with the fields of    *)
(* every token, the price data and the slippage data as they were; every   *)
(* scored entry is a token of the list with the fields of the score added; *)
(* and the result is determined by the three arguments of the call.        *)
C23_InputsUnchanged ==
  [][(op = "scoreTokens" /\ pc = "call" /\ pc' = "done") =>
       /\ tokens' = tokens
       /\ priceData' = priceData
       /\ slippageData' = slippageData
       /\ result' = ScoreTokens(tokens, priceData, slippageData)
       /\ ~result'.null =>
            /\ Len(result'.allScores) = Len(tokens.list)
            /\ \A j \in 1..Len(result'.allScores) :
                 LET s == result'.allScores[j] IN
                 /\ \E i \in 1..Len(tokens.list) :
                      /\ DOMAIN tokens.list[i] = {"address", "balance"}
                      /\ \A f \in DOMAIN tokens.list[i] :
                           s[f] = tokens.list[i][f]
                 /\ {"score", "reasons"} \subseteq DOMAIN s
    ]_vars

\* two tokens have been scored and the second is ranked first: the list
\* given is in its order still
C23_Witness ==
  /\ ScoreDone
  /\ Len(tokens.list) = 2
  /\ tokens.list[1].address # tokens.list[2].address
  /\ result.allScores[1].address = tokens.list[2].address
  /\ result.allScores[2].address = tokens.list[1].address
  /\ result.allScores[1].score > result.allScores[2].score


\* a getPaymasterData call and the validity of its arguments
PaymasterDataCall == pmCall.op = "getPaymasterData"

ValidPaymasterRequest ==
  /\ pmCall.type \in {0, 1, 2}
  /\ pmCall.type \in {1, 2} => pmCall.address # ""

C26_FailureServesCacheFreshServedWithoutRpc ==
  [][/\ (/\ pmCalls' = pmCalls + 1
         /\ pmCall'.op # "getPaymasterData") =>
          /\ pmCall'.sent = << >> <=>
               /\ ~supportedTokens.null
               /\ pmNow - supportedTokensTimestamp <= PaymasterCacheTTL
          /\ pmCall'.sent = << >> =>
               /\ pmCall'.pc = "returned"
               /\ pmCall'.supported = supportedTokens.list
          /\ pmCall'.sent # << >> =>
               /\ pmCall'.pc = "rpc"
               /\ pmCall'.sent = << SupportedTokensRequest >>
          /\ UNCHANGED <<supportedTokens, supportedTokensTimestamp>>
     /\ (/\ pmCall.pc = "rpc"
         /\ ~PaymasterDataCall
         /\ pmCall' # pmCall) =>
          /\ pmCall'.pc = "returned"
          /\ pmCall'.sent = pmCall.sent
          /\ \/ /\ ~supportedTokens'.null
                /\ supportedTokensTimestamp' = pmNow
                /\ pmCall'.supported = supportedTokens'.list
             \/ /\ UNCHANGED <<supportedTokens, supportedTokensTimestamp>>
                /\ pmCall'.supported =
                     IF supportedTokens.null THEN << >>
                                             ELSE supportedTokens.list
     /\ ~PaymasterDataCall => pmCall.pc # "threw"
    ]_vars

\* a request failed after the stored list had expired: the expired list was
\* returned, and it is still stored under its old timestamp
C26_Witness ==
  /\ pmCall.op = "getSupportedTokens"
  /\ pmCall.pc = "returned"
  /\ pmCall.sent # << >>
  /\ ~supportedTokens.null
  /\ supportedTokens.list # << >>
  /\ pmNow - supportedTokensTimestamp > PaymasterCacheTTL
  /\ pmCall.supported = supportedTokens.list


\* C28: in executeTransfer and executeBatch calls that do not overlap,
\* isLoading is true while a call is in progress and false before the first
\* call and after a call has settled; a call in progress has cleared the
\* txHash and the error of the call before it; and once a call has settled,
\* txHash holds the hash it returned and error is null when it succeeded,
\* error holds a message and txHash is null when it failed.
C28_LoadingThenHashOrError ==
  /\ UserOpInFlight(userOpCall) =>
       /\ userOp.isLoading
       /\ userOp.txHash = Null
       /\ userOp.error = Null
  /\ ~UserOpInFlight(userOpCall) => ~userOp.isLoading
  /\ userOpCall.pc = "idle" => userOp.txHash = Null /\ userOp.error = Null
  /\ userOpCall.pc = "resolved" =>
       /\ userOp.txHash = userOpCall.value
       /\ userOp.txHash # Null
       /\ userOp.error = Null
  /\ userOpCall.pc = "rejected" =>
       /\ userOp.error # Null
       /\ userOp.error # ""
       /\ userOp.txHash = Null

\* a call that was not the first one failed with an error that has no
\* message: the fallback message is the error and there is no hash
C28_Witness ==
  /\ frontSteps >= 2
  /\ userOpCall.op = "executeBatch"
  /\ userOpCall.pc = "rejected"
  /\ userOp.error = "Error sending batch UserOperation"
  /\ userOp.txHash = Null


-----------------------------------------------------------------------------
(* Properties of PaymentPage and of its TransactionModal *)

\* the step opens the modal, closes it
ModalOpens == ~page.isModalOpen /\ page'.isModalOpen
ModalCloses == page.isModalOpen /\ ~page'.isModalOpen

\* the step calls onConfirm
OnConfirmCalled == modal'.confirms = modal.confirms + 1

\* the step calls executeTransfer
ExecuteTransferCalled ==
  /\ userOpCall' # userOpCall
  /\ userOpCall'.op = "executeTransfer"
  /\ userOpCall'.pc = "initClient"

\* C27: the status of the modal changes only from 'preparing' to
\* 'processing' (through 'confirming', within handleConfirm), from
\* 'processing' to 'success' or to 'error', and from 'success' or 'error' to
\* 'preparing' when the modal is opened again, which also clears txHash and
\* error; onConfirm is called only in status 'preparing' and at most once
\* in one opening; and the modal is never closed in status 'confirming' or
\* 'processing'.
C27_StatusMovesForwardConfirmOnce ==
  [][/\ modal'.status # modal.status =>
          \/ /\ modal.status = "preparing"
             /\ modal'.status = "processing"
             /\ OnConfirmCalled
          \/ /\ modal.status = "processing"
             /\ modal'.status \in {"success", "error"}
          \/ /\ modal.status \in {"success", "error"}
             /\ modal'.status = "preparing"
             /\ ModalOpens
     /\ ModalOpens =>
          /\ modal'.status = "preparing"
          /\ modal'.txHash = Null
          /\ modal'.error = Null
          /\ modal'.confirms = 0
     /\ modal'.confirms # modal.confirms /\ ~ModalOpens =>
          /\ OnConfirmCalled
          /\ modal.status = "preparing"
          /\ page.isModalOpen
          /\ modal'.confirms = 1
     /\ ModalCloses => modal.status \notin {"confirming", "processing"}
     /\ modal'.status = "success" => modal'.txHash # Null
     /\ modal'.status = "error" => modal'.error # Null
    ]_vars

\* the modal was opened again after a transfer had failed: it is back in
\* 'preparing', with no hash and no error, while the hook still holds the
\* error of the transfer
C27_Witness ==
  /\ page.isModalOpen
  /\ modal.status = "preparing"
  /\ modal.error = Null
  /\ modal.confirms = 0
  /\ userOp.error # Null

\* the validations of handleSubmitTransaction hold in a state of the page
SubmissionValid ==
  /\ page.amount # ""
  /\ ~ParseFloat(page.amount).nan
  /\ ParseFloat(page.amount).val > 0
  /\ page.signer
  /\ page.token # Null
  /\ page.paymentType \in {1, 2} => page.paymentToken # Null

-----------------------------------------------------------------------------
(* Properties of useTokens and of the home page *)

\* the positions of the token list that are flagged recommended: true
Flagged ==
  { i \in DOMAIN tokenState.tokens :
      tokenState.tokens[i].recommended = "true" }

C24_HomePageLoadsTokensOnceConnected ==
  /\ home.walletConnected
  /\ wallet["WalletConnect"].account # Null
  /\ wallet["WalletConnect"].provider
  /\ tokenCalls["HomePage"].pc = "done"
  => /\ tokenCalls["HomePage"].outcome = "loaded"
     /\ tokenState.error # NotConnectedMessage

=============================================================================
